---- MODULE Spec2Model ----
(***************************************************************************)
(* disease_sync (src/src/main.rs): sync of clinical visit data from the    *)
(* hospital database into the table ai_disease_training_data.              *)
(*                                                                         *)
(* The state is the two databases (the six source tables the query joins   *)
(* and the destination table), the wall clock the SQL functions NOW() and  *)
(* CURDATE() read, and one process run at a time: its mode, its position   *)
(* in main, its checkpoints and the SyncStats it returns.  Every SQL       *)
(* statement of the program is one atomic step; its result is computed     *)
(* from the statement text (joins, WHERE, GROUP BY, ORDER BY, LIMIT,       *)
(* ON DUPLICATE KEY UPDATE).  What SQL leaves unspecified (the order of    *)
(* rows with equal sort keys, the order of rows without ORDER BY, the      *)
(* order inside GROUP_CONCAT, the value of a non-grouped column) is a      *)
(* nondeterministic choice.                                                *)
(*                                                                         *)
(* Left out: the columns id, created_at and updated_at of the destination  *)
(* (no statement of the program reads them), column widths, and the text   *)
(* of log lines.                                                           *)
(***************************************************************************)
EXTENDS Integers, Sequences, FiniteSets, TLC

(***************************************************************************)
(* Bounds of the model                                                     *)
(***************************************************************************)
\* config.limit, 50000 in main, scaled down to the size of the model's source
Limit == 2

\* changes the hospital makes to the source database in one behaviour
MaxEdits == 1

\* days the clock advances in one behaviour
MaxTicks == 1

\* diagnostic queries the databases reject in one behaviour
MaxBroken == 2

(***************************************************************************)
(* SQL values.  Strings are TLA+ strings, dates are day numbers (day 0 is  *)
(* 1 January of year BaseYear, every year has 365 days), instants are      *)
(* hours since day 0, 00:00.                                               *)
(***************************************************************************)
NULL == "<null>"

NullDate == 0 - 1

\* faulty variant, for comparison: no default is substituted
CoalesceOff(a, b) == a

\* COALESCE(a, b)
Coalesce(a, b) == IF a = NULL THEN b ELSE a

CoalesceDate(d, e) == IF d = NullDate THEN e ELSE d

\* a = b in SQL is true only when neither side is NULL
SqlEq(a, b) == a # NULL /\ b # NULL /\ a = b

\* CONCAT(a, b): NULL as soon as one argument is NULL
Concat(a, b) == IF a = NULL \/ b = NULL THEN NULL ELSE a \o b

RECURSIVE LTrim(_)
LTrim(s) == IF Len(s) > 0 /\ Head(s) = " " THEN LTrim(Tail(s)) ELSE s

RECURSIVE RTrim(_)
RTrim(s) ==
    IF Len(s) > 0 /\ SubSeq(s, Len(s), Len(s)) = " "
    THEN RTrim(SubSeq(s, 1, Len(s) - 1))
    ELSE s

\* TRIM(s): leading and trailing spaces removed; NULL stays NULL
Trim(s) == IF s = NULL THEN NULL ELSE RTrim(LTrim(s))

\* YEAR(d) of a day number
Year(d) == 2024 + (d \div 365)

\* CURDATE() at instant t
CurDate(t) == t \div 24

\* a DATE compared with a DATETIME is that day at 00:00:00
DateTime(d) == d * 24

\* DATE_SUB(t, INTERVAL h HOUR)
DateSubHours(t, h) == t - h

(***************************************************************************)
(* Sequences over finite sets                                              *)
(***************************************************************************)
RECURSIVE SeqsOf(_)
SeqsOf(S) ==
    IF S = {} THEN {<<>>}
    ELSE UNION {{<<x>> \o s : s \in SeqsOf(S \ {x})} : x \in S}

Range(s) == {s[k] : k \in 1..Len(s)}

Take(s, n) == SubSeq(s, 1, IF n < Len(s) THEN n ELSE Len(s))

RECURSIVE JoinWith(_, _)
JoinWith(s, sep) ==
    IF Len(s) = 0 THEN NULL
    ELSE IF Len(s) = 1 THEN s[1]
    ELSE s[1] \o sep \o JoinWith(Tail(s), sep)

(***************************************************************************)
(* The query of get_insert_query, execute_incremental_sync, preview_data   *)
(***************************************************************************)
NullV == [vn |-> NULL, pdx |-> NULL]
NullI == [code |-> NULL, name |-> NULL]
NullOp == [vn |-> NULL, icode |-> NULL]
NullD == [icode |-> NULL, name |-> NULL, strength |-> NULL]
NullH == [hn |-> NULL, sex |-> NULL]

\* A LEFT JOIN B ON c: the rows of B that match, or one all-NULL row
LeftJoin(matches, nullRow) == IF matches = {} THEN {nullRow} ELSE matches

JoinedRows(S) ==
    UNION {UNION {UNION {UNION {UNION {
        {[o |-> o, v |-> v, i |-> i, op |-> op, d |-> d, h |-> h] :
            h \in LeftJoin({x \in S.hismember : SqlEq(x.hn, o.hn)}, NullH)}
        : d \in LeftJoin({x \in S.drugitems : SqlEq(x.icode, op.icode)}, NullD)}
        : op \in LeftJoin({x \in S.opitemrece : SqlEq(x.vn, o.vn)}, NullOp)}
        : i \in LeftJoin({x \in S.icd101 : SqlEq(x.code, v.pdx)}, NullI)}
        : v \in LeftJoin({x \in S.vn_stat : SqlEq(x.vn, o.vn)}, NullV)}
        : o \in S.opdscreen}

\* faulty variant, for comparison: a date-aware age, in full years
AgeInFullYears(vstdate, t) == (CurDate(t) - CoalesceDate(vstdate, CurDate(t))) \div 365

\* faulty variant, for comparison: the test of the principal diagnosis is missing
WhereEligibleNoTrim(j) == j.i.code # NULL

\* WHERE i.code IS NOT NULL AND TRIM(COALESCE(v.pdx, '')) != ''
WhereEligible(j) == j.i.code # NULL /\ Trim(Coalesce(j.v.pdx, "")) # ""

\* faulty variant, for comparison: the statement has no time window
WhereWindowOff(j, t, hours) == TRUE

\* AND o.vstdate >= DATE_SUB(NOW(), INTERVAL ? HOUR)
WhereWindow(j, t, hours) ==
    /\ j.o.vstdate # NullDate
    /\ DateTime(j.o.vstdate) >= DateSubHours(t, hours)

\* GROUP BY o.hn, o.vn, i.code, o.vstdate
GroupKey(j) == <<j.o.hn, j.o.vn, j.i.code, j.o.vstdate>>

GroupBy(J) == {{j \in J : GroupKey(j) = k} : k \in {GroupKey(j) : j \in J}}

\* CONCAT(d.name, ' ', COALESCE(d.strength, ''))
DrugText(d) == Concat(Concat(d.name, " "), Coalesce(d.strength, ""))

\* faulty variant, for comparison: GROUP_CONCAT without DISTINCT
MedicinesAll(g) ==
    LET rows == {j \in g : DrugText(j.d) # NULL}
    IN  IF rows = {} THEN {"Unknown"}
        ELSE {JoinWith([k \in 1..Len(q) |-> DrugText(q[k].d)], "|") : q \in SeqsOf(rows)}

\* COALESCE(GROUP_CONCAT(DISTINCT ... SEPARATOR '|'), 'Unknown'): the distinct
\* non-NULL values of the group in an order SQL does not fix
Medicines(g) ==
    LET vals == {DrugText(j.d) : j \in g} \ {NULL}
    IN  IF vals = {} THEN {"Unknown"}
        ELSE {JoinWith(s, "|") : s \in SeqsOf(vals)}

\* YEAR(CURDATE()) - YEAR(COALESCE(o.vstdate, CURDATE()))
Age(vstdate, t) == Year(CurDate(t)) - Year(CoalesceDate(vstdate, CurDate(t)))

\* The SELECT list for one group.  o.cc, i.name and h.sex are not grouped:
\* the value of any row of the group may be returned.
SelectGroup(g, t) ==
    LET k == CHOOSE k \in {GroupKey(j) : j \in g} : TRUE
    IN  {[visit_id |-> Concat(Concat(k[1], "-"), k[2]),
          hn |-> k[1],
          vn |-> k[2],
          symptoms |-> Coalesce(cc, "Unknown"),
          icd10_code |-> Coalesce(k[3], "Unknown"),
          disease_name |-> Coalesce(nm, "Unknown"),
          medicines |-> med,
          age |-> Age(k[4], t),
          sex |-> Coalesce(sx, "U"),
          visit_date |-> k[4]] :
            cc \in {j.o.cc : j \in g},
            nm \in {j.i.name : j \in g},
            sx \in {j.h.sex : j \in g},
            med \in Medicines(g)}

\* One output row per group, for every way of resolving the unspecified values
RECURSIVE SelectAll(_, _)
SelectAll(G, t) ==
    IF G = {} THEN {{}}
    ELSE LET g == CHOOSE g \in G : TRUE
         IN  {{r} \cup rest : r \in SelectGroup(g, t), rest \in SelectAll(G \ {g}, t)}

\* faulty variant, for comparison: ORDER BY o.vstdate ASC
OrderedAsc(s) ==
    \A a \in 1..Len(s) : \A b \in 1..Len(s) :
        a < b => s[a].visit_date <= s[b].visit_date

\* ORDER BY o.vstdate DESC: NULL sorts last, rows with equal dates in any order
OrderedDesc(s) ==
    \A a \in 1..Len(s) : \A b \in 1..Len(s) :
        a < b => s[a].visit_date >= s[b].visit_date

\* The possible results of the SELECT of get_insert_query with LIMIT n
FullSelect(S, t, n) ==
    UNION {{Take(s, n) : s \in {q \in SeqsOf(R) : OrderedDesc(q)}}
           : R \in SelectAll(GroupBy({j \in JoinedRows(S) : WhereEligible(j)}), t)}

\* faulty variant, for comparison: the incremental statement reuses the ORDER BY ... LIMIT of the full one
IncrementalSelectLimited(S, t, hours) ==
    UNION {{Take(s, Limit) : s \in {q \in SeqsOf(R) : OrderedDesc(q)}}
           : R \in SelectAll(GroupBy({j \in JoinedRows(S) :
                        WhereEligible(j) /\ WhereWindow(j, t, hours)}), t)}

\* The possible results of the SELECT of execute_incremental_sync (no ORDER BY)
IncrementalSelect(S, t, hours) ==
    UNION {SeqsOf(R)
           : R \in SelectAll(GroupBy({j \in JoinedRows(S) :
                        WhereEligible(j) /\ WhereWindow(j, t, hours)}), t)}

(***************************************************************************)
(* The destination table ai_disease_training_data                          *)
(***************************************************************************)
VisitIds(D) == {r.visit_id : r \in D}

\* faulty variant, for comparison: the table has no unique key on visit_id
UniqueViolationOff(D, r) == FALSE

\* `visit_id` VARCHAR(50) UNIQUE NOT NULL: row r cannot be added to D
UniqueViolation(D, r) == \E x \in D : x.visit_id = r.visit_id

NotNullViolation(r) == r.visit_id = NULL

\* faulty variant, for comparison: a rejected statement keeps the rows it
\* inserted before the violation
RECURSIVE InsertRowsPartial(_, _, _)
InsertRowsPartial(D0, D, s) ==
    IF Len(s) = 0 THEN [ok |-> TRUE, rows |-> D, affected |-> Cardinality(D) - Cardinality(D0)]
    ELSE IF UniqueViolation(D, Head(s)) \/ NotNullViolation(Head(s))
         THEN [ok |-> FALSE, rows |-> D, affected |-> 0]
         ELSE InsertRowsPartial(D0, D \cup {Head(s)}, Tail(s))

\* INSERT INTO ... SELECT: the rows of s are inserted in order; a violated
\* constraint rejects the statement and InnoDB rolls the whole statement back
RECURSIVE InsertRows(_, _, _)
InsertRows(D0, D, s) ==
    IF Len(s) = 0 THEN [ok |-> TRUE, rows |-> D, affected |-> Cardinality(D) - Cardinality(D0)]
    ELSE IF UniqueViolation(D, Head(s)) \/ NotNullViolation(Head(s))
         THEN [ok |-> FALSE, rows |-> D0, affected |-> 0]
         ELSE InsertRows(D0, D \cup {Head(s)}, Tail(s))

\* The error that rejects the INSERT of s into D
InsertError(D, s) ==
    IF \E r \in Range(s) : NotNullViolation(r) THEN "not_null" ELSE "duplicate_key"

\* faulty variant, for comparison: the table is not cleared
TruncateKeep(D) == D

\* TRUNCATE TABLE
Truncate(D) == {}

\* faulty variant, for comparison: the update list also names sex and visit_date
OnDuplicateKeyUpdateMore(x, r) ==
    [x EXCEPT !.symptoms = r.symptoms,
              !.disease_name = r.disease_name,
              !.medicines = r.medicines,
              !.age = r.age,
              !.sex = r.sex,
              !.visit_date = r.visit_date]

\* ON DUPLICATE KEY UPDATE symptoms = VALUES(symptoms), disease_name = ...,
\* medicines = ..., age = VALUES(age)
OnDuplicateKeyUpdate(x, r) ==
    [x EXCEPT !.symptoms = r.symptoms,
              !.disease_name = r.disease_name,
              !.medicines = r.medicines,
              !.age = r.age]

\* faulty variant, for comparison: one affected row per row touched
AffectedByUpsertNaive(x, y, found) == 1

\* The affected-rows value of one row of INSERT ... ON DUPLICATE KEY UPDATE:
\* 1 inserted, 2 updated, and for a row set to its current values 0, or 1 on a
\* connection that negotiated CLIENT_FOUND_ROWS
AffectedByUpsert(x, y, found) == IF x # y THEN 2 ELSE IF found THEN 1 ELSE 0

\* faulty variant, for comparison: the table is made a mirror of the statement's rows
UpsertRowsMirror(D, s, n, found) ==
    [ok |-> TRUE, rows |-> {s[k] : k \in 1..Len(s)}, affected |-> n + Len(s)]

RECURSIVE UpsertRows(_, _, _, _)
UpsertRows(D, s, n, found) ==
    IF Len(s) = 0 THEN [ok |-> TRUE, rows |-> D, affected |-> n]
    ELSE LET r == Head(s)
         IN  IF NotNullViolation(r) THEN [ok |-> FALSE, rows |-> D, affected |-> 0]
             ELSE IF UniqueViolation(D, r)
             THEN LET x == CHOOSE x \in D : x.visit_id = r.visit_id
                      y == OnDuplicateKeyUpdate(x, r)
                  IN  UpsertRows((D \ {x}) \cup {y}, Tail(s),
                                 n + AffectedByUpsert(x, y, found), found)
             ELSE UpsertRows(D \cup {r}, Tail(s), n + 1, found)

(***************************************************************************)
(* The diagnostics: run_health_check, verify_data_integrity, preview_data  *)
(***************************************************************************)
\* let tables = vec![...]
SourceTables == <<"opdscreen", "vn_stat", "icd101", "opitemrece", "drugitems", "hismember">>

DestinationTable == "ai_disease_training_data"

\* let checks = vec![...]: the labels
VerifyChecks ==
    <<"Total Records", "Unique Patients (HN)", "Unique Diseases (ICD10)",
      "Records with Unknown Symptoms", "Records with Unknown Disease", "Average Age">>

\* LIMIT 10 of preview_data
PreviewLimit == 10

\* faulty variant, for comparison: the first query that fails ends the loop
RECURSIVE ChecksRunUntilError(_, _)
ChecksRunUntilError(checks, B) ==
    IF Len(checks) = 0 THEN <<>>
    ELSE IF Head(checks) \in B THEN <<Head(checks)>>
    ELSE <<Head(checks)>> \o ChecksRunUntilError(Tail(checks), B)

\* for ... in ... { match query { Ok(..) => .., Err(e) => error!(..) } }: the
\* queries the loop issues when those of B fail
ChecksRun(checks, B) == checks

\* one source table of run_health_check: SELECT COUNT(*), then info!, warn! or error!
HealthLine(S, B, t) ==
    IF t \in B THEN [check |-> t, result |-> "error", count |-> 0]
    ELSE [check |-> t,
          result |-> IF Cardinality(S[t]) > 0 THEN "records" ELSE "EMPTY",
          count |-> Cardinality(S[t])]

\* the destination table of run_health_check: the count is logged, 0 included
DestinationLine(D, B) ==
    IF DestinationTable \in B THEN [check |-> DestinationTable, result |-> "error", count |-> 0]
    ELSE [check |-> DestinationTable, result |-> "records", count |-> Cardinality(D)]

HealthReport(S, D, B) ==
    LET run == ChecksRun(SourceTables, B)
    IN  [k \in 1..Len(run) |-> HealthLine(S, B, run[k])] \o <<DestinationLine(D, B)>>

RECURSIVE SumAges(_)
SumAges(R) ==
    IF R = {} THEN 0
    ELSE LET r == CHOOSE r \in R : TRUE IN r.age + SumAges(R \ {r})

\* ROUND(x, 1) of sum / n, in tenths
RoundedTenths(sum, n) == (20 * sum + n) \div (2 * n)

\* The one column of the one row a query of verify_data_integrity returns:
\* COUNT is a BIGINT, ROUND(AVG(age), 1) a DECIMAL that is NULL without rows
VerifyColumn(D, label) ==
    CASE label = "Total Records" ->
            [type |-> "BIGINT", isNull |-> FALSE, value |-> Cardinality(D)]
      [] label = "Unique Patients (HN)" ->
            [type |-> "BIGINT", isNull |-> FALSE,
             value |-> Cardinality({r.hn : r \in D} \ {NULL})]
      [] label = "Unique Diseases (ICD10)" ->
            [type |-> "BIGINT", isNull |-> FALSE,
             value |-> Cardinality({r.icd10_code : r \in D} \ {NULL, "Unknown"})]
      [] label = "Records with Unknown Symptoms" ->
            [type |-> "BIGINT", isNull |-> FALSE,
             value |-> Cardinality({r \in D : r.symptoms = "Unknown"})]
      [] label = "Records with Unknown Disease" ->
            [type |-> "BIGINT", isNull |-> FALSE,
             value |-> Cardinality({r \in D : r.disease_name = "Unknown"})]
      [] label = "Average Age" ->
            LET R == {r \in D : r.age > 0}
            IN  [type |-> "DECIMAL", isNull |-> R = {},
                 value |-> IF R = {} THEN 0 ELSE RoundedTenths(SumAges(R), Cardinality(R))]

\* the column types sqlx decodes as a String
TextTypes == {"VARCHAR", "CHAR", "TEXT", "ENUM"}

\* let value: Option<String> = row.try_get(0).ok();
\* value.unwrap_or_else(|| "N/A".to_string())
\* Row::try_get::<String> is Err for a NULL and for a column whose type is not
\* a text type, and .ok() turns the Err into None
Shown(col) ==
    IF col.isNull \/ col.type \notin TextTypes THEN "N/A" ELSE col.value

\* one query of verify_data_integrity: info! with the value shown, or error!
VerifyLine(D, B, label) ==
    IF label \in B THEN [check |-> label, result |-> "error", shown |-> ""]
    ELSE [check |-> label, result |-> "ok", shown |-> Shown(VerifyColumn(D, label))]

VerifyReport(D, B) ==
    LET run == ChecksRun(VerifyChecks, B)
    IN  [k \in 1..Len(run) |-> VerifyLine(D, B, run[k])]

(***************************************************************************)
(* The command line: cli_parser::parse_arguments                           *)
(***************************************************************************)
DigitChars == {"0", "1", "2", "3", "4", "5", "6", "7", "8", "9"}

DigitValue(c) ==
    CASE c = "0" -> 0 [] c = "1" -> 1 [] c = "2" -> 2 [] c = "3" -> 3 [] c = "4" -> 4
      [] c = "5" -> 5 [] c = "6" -> 6 [] c = "7" -> 7 [] c = "8" -> 8 [] c = "9" -> 9

NotAnInt == [ok |-> FALSE, value |-> 0]

\* the digits of s appended to acc, which is kept with the sign of the number;
\* a value outside i32 is an error
RECURSIVE ParseDigits(_, _, _)
ParseDigits(s, acc, negative) ==
    IF Len(s) = 0 THEN [ok |-> TRUE, value |-> acc]
    ELSE LET c == SubSeq(s, 1, 1)
         IN  IF c \notin DigitChars THEN NotAnInt
             ELSE LET d == DigitValue(c)
                  IN  IF negative
                      THEN IF acc < 0 - 214748364 \/ (acc = 0 - 214748364 /\ d > 8)
                           THEN NotAnInt
                           ELSE ParseDigits(Tail(s), acc * 10 - d, negative)
                      ELSE IF acc > 214748364 \/ (acc = 214748364 /\ d > 7)
                           THEN NotAnInt
                           ELSE ParseDigits(Tail(s), acc * 10 + d, negative)

\* str::parse::<i32>: an optional sign, then one digit or more, nothing else
ParseI32(s) ==
    IF Len(s) = 0 THEN NotAnInt
    ELSE IF SubSeq(s, 1, 1) = "-"
         THEN IF Len(s) = 1 THEN NotAnInt ELSE ParseDigits(Tail(s), 0, TRUE)
         ELSE IF SubSeq(s, 1, 1) = "+"
              THEN IF Len(s) = 1 THEN NotAnInt ELSE ParseDigits(Tail(s), 0, FALSE)
              ELSE ParseDigits(s, 0, FALSE)

\* faulty variant, for comparison: an unparsable hours argument is an unknown command
UnwrapOrUsage(r, default) == IF r.ok THEN r.value ELSE 0 - 1

\* Result::unwrap_or
UnwrapOr(r, default) == IF r.ok THEN r.value ELSE default

NoExit == 0 - 1

Selected(kind, hours) == [exit |-> NoExit, mode |-> [kind |-> kind, hours |-> hours]]

Exits(code) == [exit |-> code, mode |-> [kind |-> "none", hours |-> 0]]

\* parse_arguments on std::env::args(): a[1] is the program, a[2] the command
ParseArguments(a) ==
    IF Len(a) > 1
    THEN CASE a[2] = "incremental" ->
                Selected("Incremental",
                         IF Len(a) > 2 THEN UnwrapOr(ParseI32(a[3]), 24) ELSE 24)
           [] a[2] = "health" -> Selected("HealthCheck", 0)
           [] a[2] = "preview" -> Selected("Preview", 0)
           [] a[2] = "verify" -> Selected("Verify", 0)
           [] a[2] \in {"--help", "-h"} -> Exits(0)
           [] OTHER -> Exits(1)
    ELSE Selected("Full", 0)

(***************************************************************************)
(* The connection strings: EnvConfig, mask_connection_string               *)
(***************************************************************************)
\* format!("mysql://{}:{}@{}:{}/", user, pass, host, port)
BuildConnectionString(c) ==
    "mysql://" \o c.user \o ":" \o c.pass \o "@" \o c.host \o ":" \o ToString(c.port) \o "/"

\* str::split(c): the pieces of s between the occurrences of c
RECURSIVE SplitFrom(_, _, _)
SplitFrom(s, c, piece) ==
    IF Len(s) = 0 THEN <<piece>>
    ELSE IF SubSeq(s, 1, 1) = c
         THEN <<piece>> \o SplitFrom(Tail(s), c, "")
         ELSE SplitFrom(Tail(s), c, piece \o SubSeq(s, 1, 1))

Split(s, c) == SplitFrom(s, c, "")

\* mask_connection_string: split(':'), the piece of index 1 replaced by "***",
\* join(":")
MaskConnectionString(s) ==
    LET parts == Split(s, ":")
    IN  JoinWith([k \in 1..Len(parts) |-> IF k = 2 THEN "***" ELSE parts[k]], ":")

\* the configuration read when no variable is set
DefaultEnv ==
    [src |-> [user |-> "root", pass |-> "root", host |-> "localhost", port |-> 3306],
     dst |-> [user |-> "root", pass |-> "root", host |-> "localhost", port |-> 3306]]

\* what the two create_pool calls write about their connection strings
ConnectionLog(e) ==
    <<MaskConnectionString(BuildConnectionString(e.src)),
      MaskConnectionString(BuildConnectionString(e.dst))>>

(***************************************************************************)
(* The inputs of the model                                                 *)
(***************************************************************************)
Hours == {48}

ReadOnlyModes == {[kind |-> "HealthCheck", hours |-> 0],
                  [kind |-> "Preview", hours |-> 0], [kind |-> "Verify", hours |-> 0]}

Modes == {[kind |-> "Full", hours |-> 0]} \cup ReadOnlyModes
         \cup {[kind |-> "Incremental", hours |-> h] : h \in Hours}

\* one command line for each mode
CommandLineOf(m) ==
    CASE m.kind = "Full" -> <<"sync">>
      [] m.kind = "Incremental" -> <<"sync", "incremental", ToString(m.hours)>>
      [] m.kind = "HealthCheck" -> <<"sync", "health">>
      [] m.kind = "Preview" -> <<"sync", "preview">>
      [] m.kind = "Verify" -> <<"sync", "verify">>

CommandLines == {CommandLineOf(m) : m \in Modes}

\* 31 December, 10:00
Clock0 == 364 * 24 + 10

VisitKeys == {<<"H1", "V1">>, <<"H1", "V2">>, <<"H2", "V3">>}

\* the visit whose diagnosis, prescriptions and patient the hospital edits
EditedKeys == {<<"H1", "V1">>}

Dates == {363, 364}

Complaints == {NULL, "cough"}

Pdxs == {NULL, " ", "A00", "B00", "Z99"}

Icodes == {"D1", "D2", "X1"}

Sexes == {"M", "F"}

Icd101 == {[code |-> "A00", name |-> "Cholera"],
           [code |-> "B00", name |-> "Herpes"],
           [code |-> " ", name |-> "Blank"]}

\* D3 is a second record of the drug of D1; D4 has no strength
DrugItems == {[icode |-> "D1", name |-> "Paracetamol", strength |-> "500mg"],
              [icode |-> "D2", name |-> "ORS", strength |-> "250mg"],
              [icode |-> "D3", name |-> "Paracetamol", strength |-> "500mg"],
              [icode |-> "D4", name |-> "Zinc", strength |-> NULL]}

EmptySource ==
    [opdscreen |-> {}, vn_stat |-> {}, icd101 |-> Icd101,
     opitemrece |-> {}, drugitems |-> DrugItems, hismember |-> {}]

\* three diagnosed visits of 31 December
BusySource ==
    [opdscreen |-> {[hn |-> "H1", vn |-> "V1", cc |-> "cough", vstdate |-> 364],
                    [hn |-> "H1", vn |-> "V2", cc |-> NULL, vstdate |-> 364],
                    [hn |-> "H2", vn |-> "V3", cc |-> "cough", vstdate |-> 364]},
     vn_stat |-> {[vn |-> "V1", pdx |-> "A00"], [vn |-> "V2", pdx |-> "B00"],
                  [vn |-> "V3", pdx |-> "A00"]},
     icd101 |-> Icd101,
     opitemrece |-> {[vn |-> "V1", icode |-> "D1"]},
     drugitems |-> DrugItems,
     hismember |-> {[hn |-> "H1", sex |-> "M"]}]

\* visits without an eligible diagnosis: a blank principal diagnosis (the
\* diagnosis table holds a blank code), none recorded, an unknown code
UndiagnosedSource ==
    [opdscreen |-> {[hn |-> "H1", vn |-> "V1", cc |-> "cough", vstdate |-> 364],
                    [hn |-> "H1", vn |-> "V2", cc |-> NULL, vstdate |-> 363],
                    [hn |-> "H2", vn |-> "V3", cc |-> "cough", vstdate |-> 364]},
     vn_stat |-> {[vn |-> "V1", pdx |-> " "], [vn |-> "V2", pdx |-> NULL],
                  [vn |-> "V3", pdx |-> "Z99"]},
     icd101 |-> Icd101,
     opitemrece |-> {},
     drugitems |-> DrugItems,
     hismember |-> {}]

\* a visit with two diagnosis records, and a second visit
TwiceDiagnosedSource ==
    [opdscreen |-> {[hn |-> "H1", vn |-> "V1", cc |-> "cough", vstdate |-> 364],
                    [hn |-> "H2", vn |-> "V3", cc |-> "cough", vstdate |-> 363]},
     vn_stat |-> {[vn |-> "V1", pdx |-> "A00"], [vn |-> "V1", pdx |-> "B00"],
                  [vn |-> "V3", pdx |-> "A00"]},
     icd101 |-> Icd101,
     opitemrece |-> {},
     drugitems |-> DrugItems,
     hismember |-> {}]

\* a visit screened on two days, and a second visit
TwiceDatedSource ==
    [opdscreen |-> {[hn |-> "H1", vn |-> "V1", cc |-> "cough", vstdate |-> 364],
                    [hn |-> "H1", vn |-> "V1", cc |-> "fever", vstdate |-> 363],
                    [hn |-> "H2", vn |-> "V3", cc |-> "cough", vstdate |-> 362]},
     vn_stat |-> {[vn |-> "V1", pdx |-> "A00"], [vn |-> "V3", pdx |-> "A00"]},
     icd101 |-> Icd101,
     opitemrece |-> {},
     drugitems |-> DrugItems,
     hismember |-> {}]

\* a row an earlier sync wrote for a visit the source no longer holds
StaleRow ==
    [visit_id |-> "H2-V4", hn |-> "H2", vn |-> "V4", symptoms |-> "Unknown",
     icd10_code |-> "A00", disease_name |-> "Cholera", medicines |-> "Unknown",
     age |-> 0, sex |-> "U", visit_date |-> 300]

NoStats == [total_processed |-> 0 - 1, total_inserted |-> 0 - 1, total_errors |-> 0 - 1]

NoPrev == [valid |-> FALSE, ids |-> {}, count |-> 0]

(***************************************************************************)
(* State                                                                   *)
(***************************************************************************)
VARIABLES
    src,          \* the source database: the six tables the query reads
    now,          \* the wall clock, in hours
    env,          \* EnvConfig: user, pass, host and port of the two servers
    lock,         \* PerformanceMonitor: the thread holding the checkpoints mutex
    threads,      \* the threads sharing the PerformanceMonitor
    broken,       \* the diagnostic queries the databases reject (a table or column
                  \* that is missing or may not be read)
    edits,        \* source changes made so far
    dstExists,    \* the destination table exists
    dst,          \* the rows of the destination table
    pc,           \* position of the running process in main, "idle" between runs
    mode,         \* the SyncMode cli_parser::parse_arguments returned
    checkpoints,  \* PerformanceMonitor.checkpoints (labels)
    foundRows,    \* the destination connection negotiated CLIENT_FOUND_ROWS
    affected,     \* rows_affected of the run's DML statement
    stats,        \* the SyncStats the mode returned
    outcome,      \* "none", "ok", or the error that ended the run
    report,       \* what the diagnostic mode of the run logged, line by line
    pre,          \* history: dst when the run started
    preExists,    \* history: dstExists when the run started
    args,         \* std::env::args() of the run in progress
    connLog,      \* what create_pool logged about the connection strings
    listed,       \* the checkpoint lines PerformanceMonitor::report wrote
    stmt,         \* history: the rows the run's DML statement processed, in order
    prevFull      \* history: the destination the last run left, when that run was a
                  \* successful Full sync and the source has not changed since

vars == <<src, now, broken, env, lock, threads, edits, dstExists, dst, pc, mode,
          checkpoints, foundRows, affected, stats, outcome, report, pre, preExists,
          args, connLog, listed, stmt, prevFull>>

srcVars == <<src, now, broken, env, lock, threads, edits>>

runVars == <<pc, mode, checkpoints, foundRows, affected, stats, outcome, report,
             pre, preExists, args, connLog, listed, stmt>>

NoMode == [kind |-> "none", hours |-> 0]

\* no thread holds the mutex
NoThread == 0

InitWith(sources, envs) ==
    /\ src \in sources
    /\ now = Clock0
    /\ broken = {}
    /\ env \in envs
    /\ lock = NoThread
    /\ threads = <<>>
    /\ edits = 0
    /\ dst \in {{}, {StaleRow}}
    /\ dstExists = (dst # {})
    /\ pc = "idle"
    /\ mode = NoMode
    /\ checkpoints = <<>>
    /\ foundRows = FALSE
    /\ affected = 0
    /\ stats = NoStats
    /\ outcome = "none"
    /\ pre = {}
    /\ preExists = FALSE
    /\ args = <<>>
    /\ connLog = <<>>
    /\ listed = <<>>
    /\ report = <<>>
    /\ stmt = <<>>
    /\ prevFull = NoPrev

InitFrom(sources) == InitWith(sources, {DefaultEnv})

Init == InitFrom({EmptySource, BusySource, UndiagnosedSource})

(***************************************************************************)
(* The hospital: changes of the source database and the passing of time,   *)
(* between two runs of the program                                         *)
(***************************************************************************)
Edit(S) ==
    /\ pc = "idle"
    /\ edits < MaxEdits
    /\ src' = S
    /\ S # src
    /\ edits' = edits + 1
    /\ prevFull' = NoPrev
    /\ UNCHANGED <<now, broken, env, lock, threads, dstExists, dst>>
    /\ UNCHANGED runVars

AddVisit ==
    \E k \in VisitKeys, d \in Dates \cup {NullDate} :
        Edit([src EXCEPT !.opdscreen =
                    @ \cup {[hn |-> k[1], vn |-> k[2], cc |-> "cough", vstdate |-> d]}])

DeleteVisit ==
    \E o \in src.opdscreen : Edit([src EXCEPT !.opdscreen = @ \ {o}])

UpdateComplaint ==
    \E o \in src.opdscreen, c \in Complaints :
        /\ <<o.hn, o.vn>> \in EditedKeys
        /\ Edit([src EXCEPT !.opdscreen = (@ \ {o}) \cup {[o EXCEPT !.cc = c]}])

UpdateVisitDate ==
    \E o \in src.opdscreen, d \in Dates \cup {NullDate} :
        /\ <<o.hn, o.vn>> \in EditedKeys
        /\ Edit([src EXCEPT !.opdscreen = (@ \ {o}) \cup {[o EXCEPT !.vstdate = d]}])

AddDiagnosis ==
    \E k \in EditedKeys, p \in Pdxs :
        Edit([src EXCEPT !.vn_stat = @ \cup {[vn |-> k[2], pdx |-> p]}])

UpdateDiagnosis ==
    \E v \in src.vn_stat, p \in Pdxs :
        /\ v.vn \in {k[2] : k \in EditedKeys}
        /\ Edit([src EXCEPT !.vn_stat = (@ \ {v}) \cup {[v EXCEPT !.pdx = p]}])

Prescribe ==
    \E k \in EditedKeys, c \in Icodes :
        Edit([src EXCEPT !.opitemrece = @ \cup {[vn |-> k[2], icode |-> c]}])

Unprescribe ==
    \E op \in src.opitemrece : Edit([src EXCEPT !.opitemrece = @ \ {op}])

RegisterPatient ==
    \E k \in EditedKeys, s \in Sexes :
        Edit([src EXCEPT !.hismember =
                {h \in @ : h.hn # k[1]} \cup {[hn |-> k[1], sex |-> s]}])

Tick ==
    /\ pc = "idle"
    /\ now < Clock0 + 24 * MaxTicks
    /\ now' = now + 24
    /\ UNCHANGED <<src, broken, env, lock, threads, edits, dstExists, dst, prevFull>>
    /\ UNCHANGED runVars

(***************************************************************************)
(* The program: one run of main                                            *)
(***************************************************************************)
dbVars == <<src, now, broken, env, lock, threads, edits, dstExists, dst>>

\* faulty variant, for comparison: the failed step is logged and issued again
AbortAndRetry(err) ==
    /\ pc' = pc
    /\ outcome' = err
    /\ UNCHANGED <<mode, checkpoints, foundRows, affected, stats, pre, preExists, args, connLog, listed, report, stmt>>

\* A bound of the model: the database faults that are injected and the
\* diagnostic runs happen while the source is as it was at the start
Undisturbed == edits = 0

\* A run ends in an error: main returns Err, the process exits non-zero
Abort(err) ==
    /\ Undisturbed
    /\ pc' = "failed"
    /\ outcome' = err
    /\ UNCHANGED <<mode, checkpoints, foundRows, affected, stats, pre, preExists, args, connLog, listed, report, stmt>>

\* faulty variant, for comparison: the newest entry is put first
CheckpointAtFront(label) == checkpoints' = <<label>> \o checkpoints

\* perf.checkpoint(label)
Checkpoint(label) == checkpoints' = Append(checkpoints, label)

\* main, up to "CLI parsed": logger, monitor, configuration, parse_arguments;
\* --help, -h and an unknown command leave through std::process::exit
Launch(a) ==
    /\ pc = "idle"
    /\ args' = a
    /\ pre' = dst
    /\ preExists' = dstExists
    /\ connLog' = <<>>
    /\ listed' = <<>>
    /\ report' = <<>>
    /\ LET parsed == ParseArguments(a)
       IN  IF parsed.exit = NoExit
           THEN /\ pc' = "connect"
                /\ mode' = parsed.mode
                /\ checkpoints' = <<"Environment loaded", "Configuration loaded",
                                    "CLI parsed">>
                /\ UNCHANGED outcome
           ELSE /\ pc' = "exited"
                /\ mode' = NoMode
                /\ checkpoints' = <<"Environment loaded", "Configuration loaded">>
                /\ outcome' = IF parsed.exit = 0 THEN "exit_0" ELSE "exit_1"
    /\ UNCHANGED <<foundRows, affected, stats, stmt, prevFull>>
    /\ UNCHANGED dbVars

Start(m) == Launch(CommandLineOf(m))

Startup == \E m \in Modes : (m \in ReadOnlyModes => Undisturbed) /\ Start(m)

\* create_pool twice, verify_connection twice; the fault that is injected is
\* an unreachable source server, which fails the first create_pool
Connect ==
    /\ pc = "connect"
    /\ \/ /\ pc' = "create_table"
            /\ UNCHANGED foundRows
            /\ checkpoints' = checkpoints \o <<"Source pool created",
                    "Destination pool created", "Connections verified">>
            /\ connLog' = ConnectionLog(env)
            /\ UNCHANGED <<mode, affected, stats, outcome, pre, preExists, args, listed, report, stmt>>
       \/ Abort("connection_error")
    /\ UNCHANGED <<prevFull>>
    /\ UNCHANGED dbVars

\* table_manager::create_training_table and the dispatch on the mode
CreateTrainingTable ==
    /\ pc = "create_table"
    /\ \/ /\ dstExists' = TRUE
          /\ Checkpoint("Training table created")
          /\ pc' = CASE mode.kind = "Full" -> "clear_table"
                     [] mode.kind = "Incremental" -> "incremental"
                     [] mode.kind = "HealthCheck" -> "health"
                     [] mode.kind = "Preview" -> "preview"
                     [] mode.kind = "Verify" -> "verify"
          /\ UNCHANGED <<mode, foundRows, affected, stats, outcome, pre, preExists, args, connLog, listed, report, stmt>>
       \/ Abort("db_fault") /\ UNCHANGED dstExists
    /\ UNCHANGED <<src, now, broken, env, lock, threads, edits, dst, prevFull>>

\* table_manager::clear_table: TRUNCATE TABLE
ClearTable ==
    /\ pc = "clear_table"
    /\ \/ /\ dst' = Truncate(dst)
          /\ Checkpoint("Table cleared")
          /\ pc' = "count_source"
          /\ UNCHANGED <<mode, foundRows, affected, stats, outcome, pre, preExists, args, connLog, listed, report, stmt>>
       \/ Abort("db_fault") /\ UNCHANGED dst
    /\ UNCHANGED <<src, now, broken, env, lock, threads, edits, dstExists, prevFull>>

ZeroStats == [total_processed |-> 0, total_inserted |-> 0, total_errors |-> 0]

\* faulty variant, for comparison: the statistics report the number of source records
StatsOfSourceCount(n) ==
    [total_processed |-> Cardinality(src.opdscreen),
     total_inserted |-> Cardinality(src.opdscreen), total_errors |-> 0]

\* faulty variant, for comparison: total_inserted is the size of the table
\* when the statistics are built
StatsOfTableCount(n) ==
    [total_processed |-> n, total_inserted |-> Cardinality(dst), total_errors |-> 0]

\* SyncStats { total_processed: rows_affected, total_inserted: rows_affected, .. }
StatsOf(n) == [total_processed |-> n, total_inserted |-> n, total_errors |-> 0]

\* execute_full_sync: get_source_record_count and the short-circuit
CountSource ==
    /\ pc = "count_source"
    /\ \/ /\ IF Cardinality(src.opdscreen) = 0
             THEN /\ stats' = ZeroStats
                  /\ outcome' = "ok"
                  /\ pc' = "finish"
             ELSE /\ pc' = "insert"
                  /\ UNCHANGED <<stats, outcome>>
          /\ UNCHANGED <<mode, checkpoints, foundRows, affected, pre, preExists, args, connLog, listed, report, stmt>>
       \/ Abort("db_fault")
    /\ UNCHANGED <<prevFull>>
    /\ UNCHANGED dbVars

\* execute_full_sync: the INSERT ... SELECT ... LIMIT ? bound to config.limit
FullInsert ==
    /\ pc = "insert"
    /\ \/ \E s \in FullSelect(src, now, Limit) :
            LET res == InsertRows(dst, dst, s)
            IN  /\ stmt' = s
                /\ dst' = res.rows
                /\ IF res.ok
                   THEN /\ affected' = res.affected
                        /\ pc' = "final_count"
                        /\ UNCHANGED outcome
                   ELSE /\ pc' = "failed"
                        /\ outcome' = InsertError(dst, s)
                        /\ UNCHANGED affected
                /\ UNCHANGED <<mode, checkpoints, foundRows, stats, pre, preExists, args, connLog, listed, report>>
       \/ Abort("db_fault") /\ UNCHANGED dst
    /\ UNCHANGED <<src, now, broken, env, lock, threads, edits, dstExists, prevFull>>

\* execute_full_sync: get_table_count, then the SyncStats
FinalCount ==
    /\ pc = "final_count"
    /\ \/ /\ stats' = StatsOf(affected)
          /\ outcome' = "ok"
          /\ pc' = "finish"
          /\ UNCHANGED <<mode, checkpoints, foundRows, affected, pre, preExists, args, connLog, listed, report, stmt>>
       \/ Abort("db_fault")
    /\ UNCHANGED <<prevFull>>
    /\ UNCHANGED dbVars

\* execute_incremental_sync: INSERT ... SELECT ... ON DUPLICATE KEY UPDATE
IncrementalSync ==
    /\ pc = "incremental"
    /\ \/ \E s \in IncrementalSelect(src, now, mode.hours), found \in BOOLEAN :
            LET res == UpsertRows(dst, s, 0, found)
            IN  /\ stmt' = s
                /\ foundRows' = found
                /\ dst' = IF res.ok THEN res.rows ELSE dst
                /\ IF res.ok
                   THEN /\ affected' = res.affected
                        /\ stats' = StatsOf(res.affected)
                        /\ outcome' = "ok"
                        /\ pc' = "finish"
                   ELSE /\ pc' = "failed"
                        /\ outcome' = "not_null"
                        /\ UNCHANGED <<affected, stats>>
                /\ UNCHANGED <<mode, checkpoints, pre, preExists, args, connLog, listed, report>>
       \/ Abort("db_fault") /\ UNCHANGED dst
    /\ UNCHANGED <<src, now, broken, env, lock, threads, edits, dstExists, prevFull>>

\* health_checker::run_health_check: every error is logged, Ok(()) is returned
RunHealthCheck ==
    /\ pc = "health"
    /\ report' = HealthReport(src, dst, broken)
    /\ outcome' = "ok"
    /\ pc' = "finish"
    /\ UNCHANGED <<mode, checkpoints, foundRows, affected, stats, pre, preExists, args, connLog, listed, stmt>>
    /\ UNCHANGED <<prevFull>>
    /\ UNCHANGED dbVars

\* faulty variant, for comparison: the preview stores the rows it shows
PreviewDataPersisting ==
    /\ pc = "preview"
    /\ \E s \in FullSelect(src, now, PreviewLimit) :
            /\ report' = <<[check |-> "preview", result |-> "records", count |-> Len(s)]>>
            /\ dst' = dst \cup Range(s)
    /\ outcome' = "ok"
    /\ pc' = "finish"
    /\ UNCHANGED <<mode, checkpoints, foundRows, affected, stats, pre, preExists, args, connLog, listed, stmt>>
    /\ UNCHANGED <<src, now, broken, env, lock, threads, edits, dstExists, prevFull>>

\* sql_executor::preview_data: the SELECT of get_insert_query with LIMIT 10,
\* fetch_all(..).await?, then the number of rows and one line per row
PreviewData ==
    /\ pc = "preview"
    /\ \/ \E s \in FullSelect(src, now, PreviewLimit) :
            /\ report' = <<[check |-> "preview", result |-> "records", count |-> Len(s)]>>
            /\ outcome' = "ok"
            /\ pc' = "finish"
            /\ UNCHANGED <<mode, checkpoints, foundRows, affected, stats, pre, preExists, args, connLog, listed, stmt>>
       \/ Abort("db_fault")
    /\ UNCHANGED <<prevFull>>
    /\ UNCHANGED dbVars

\* verifier::verify_data_integrity: every error is logged, Ok(()) is returned
VerifyDataIntegrity ==
    /\ pc = "verify"
    /\ report' = VerifyReport(dst, broken)
    /\ outcome' = "ok"
    /\ pc' = "finish"
    /\ UNCHANGED <<mode, checkpoints, foundRows, affected, stats, pre, preExists, args, connLog, listed, stmt>>
    /\ UNCHANGED <<prevFull>>
    /\ UNCHANGED dbVars

\* main after the match: the last checkpoint, the report, exit code 0
Finish ==
    /\ pc = "finish"
    /\ pc' = "idle"
    /\ prevFull' = IF mode.kind = "Full"
                   THEN [valid |-> TRUE, ids |-> VisitIds(dst), count |-> Cardinality(dst)]
                   ELSE NoPrev
    /\ mode' = NoMode
    /\ checkpoints' = <<>>
    /\ foundRows' = FALSE
    /\ affected' = 0
    /\ stats' = NoStats
    /\ outcome' = "none"
    /\ pre' = {}
    /\ preExists' = FALSE
    /\ args' = <<>>
    /\ connLog' = <<>>
    /\ listed' = <<>>
    /\ report' = <<>>
    /\ stmt' = <<>>
    /\ UNCHANGED dbVars

\* PerformanceMonitor::report: one line for each entry, numbered from 1
PerfReport(cp) == [k \in 1..Len(cp) |-> [index |-> k, label |-> cp[k]]]

\* The two halves of Finish, one after the other.  First the last checkpoint
\* and perf.report()
Complete ==
    /\ pc = "finish"
    /\ pc' = "done"
    /\ Checkpoint("Mode execution completed")
    /\ listed' = PerfReport(checkpoints')
    /\ UNCHANGED <<mode, foundRows, affected, stats, outcome, pre, preExists, args, connLog,
                   report, stmt, prevFull>>
    /\ UNCHANGED dbVars

\* then main returns Ok(()): exit code 0
ExitDone ==
    /\ pc = "done"
    /\ pc' = "idle"
    /\ prevFull' = IF mode.kind = "Full"
                   THEN [valid |-> TRUE, ids |-> VisitIds(dst), count |-> Cardinality(dst)]
                   ELSE NoPrev
    /\ mode' = NoMode
    /\ checkpoints' = <<>>
    /\ foundRows' = FALSE
    /\ affected' = 0
    /\ stats' = NoStats
    /\ outcome' = "none"
    /\ pre' = {}
    /\ preExists' = FALSE
    /\ args' = <<>>
    /\ connLog' = <<>>
    /\ listed' = <<>>
    /\ report' = <<>>
    /\ stmt' = <<>>
    /\ UNCHANGED dbVars

\* main returned Err: the process exits non-zero
ExitFailed ==
    /\ pc = "failed"
    /\ pc' = "idle"
    /\ prevFull' = NoPrev
    /\ mode' = NoMode
    /\ checkpoints' = <<>>
    /\ foundRows' = FALSE
    /\ affected' = 0
    /\ stats' = NoStats
    /\ outcome' = "none"
    /\ pre' = {}
    /\ preExists' = FALSE
    /\ args' = <<>>
    /\ connLog' = <<>>
    /\ listed' = <<>>
    /\ report' = <<>>
    /\ stmt' = <<>>
    /\ UNCHANGED dbVars

\* std::process::exit in parse_arguments: the process is gone
ExitProcess ==
    /\ pc = "exited"
    /\ pc' = "idle"
    /\ prevFull' = NoPrev
    /\ mode' = NoMode
    /\ checkpoints' = <<>>
    /\ foundRows' = FALSE
    /\ affected' = 0
    /\ stats' = NoStats
    /\ outcome' = "none"
    /\ pre' = {}
    /\ preExists' = FALSE
    /\ args' = <<>>
    /\ connLog' = <<>>
    /\ listed' = <<>>
    /\ report' = <<>>
    /\ stmt' = <<>>
    /\ UNCHANGED dbVars

Next ==
    \/ AddVisit
    \/ DeleteVisit
    \/ UpdateComplaint
    \/ UpdateVisitDate
    \/ AddDiagnosis
    \/ UpdateDiagnosis
    \/ Prescribe
    \/ Unprescribe
    \/ RegisterPatient
    \/ Tick
    \/ Startup
    \/ Connect
    \/ CreateTrainingTable
    \/ ClearTable
    \/ CountSource
    \/ FullInsert
    \/ FinalCount
    \/ IncrementalSync
    \/ RunHealthCheck
    \/ PreviewData
    \/ VerifyDataIntegrity
    \/ Finish
    \/ ExitFailed

Spec == Init /\ [][Next]_vars

(***************************************************************************)
(* Vocabulary of the properties                                            *)
(***************************************************************************)
SyncEnded(kind) == pc = "finish" /\ mode.kind = kind /\ outcome = "ok"

\* s holds a character that is not a space
NotBlank(s) == \E k \in 1..Len(s) : SubSeq(s, k, k) # " "

\* The visit (hn, vn) has a diagnosis record whose code is known to the
\* diagnosis table and whose principal diagnosis is neither NULL nor blank
EligibleVisit(S, hn, vn) ==
    \E v \in S.vn_stat :
        /\ v.vn = vn
        /\ v.pdx # NULL
        /\ NotBlank(v.pdx)
        /\ \E i \in S.icd101 : i.code = v.pdx

IdOf(hn, vn) == hn \o "-" \o vn

\* the positions of the statement's rows that carry visit_id id
Positions(id) == {k \in 1..Len(stmt) : stmt[k].visit_id = id}

Max(K) == CHOOSE k \in K : \A j \in K : j <= k

Min(K) == CHOOSE k \in K : \A j \in K : k <= j

SameComputed(a, b) ==
    /\ a.symptoms = b.symptoms
    /\ a.disease_name = b.disease_name
    /\ a.medicines = b.medicines
    /\ a.age = b.age

SameKept(a, b) ==
    /\ a.hn = b.hn
    /\ a.vn = b.vn
    /\ a.sex = b.sex
    /\ a.visit_date = b.visit_date

(***************************************************************************)
(* C1: a Full sync that directly follows a successful Full sync, with no   *)
(* change of the source in between, leaves the same number of rows and the *)
(* same set of visit_ids in the destination.                               *)
(* The ORDER BY o.vstdate DESC LIMIT ? of get_insert_query has no          *)
(* tie-break: with more eligible visits than the limit and equal dates at  *)
(* the cut, the two runs may keep different visits.                        *)
(***************************************************************************)
C1_FullSyncIdempotent ==
    (SyncEnded("Full") /\ prevFull.valid) =>
        /\ Cardinality(dst) = prevFull.count
        /\ VisitIds(dst) = prevFull.ids

(***************************************************************************)
(* C2: in every state, whatever runs succeeded or failed before, no two    *)
(* rows of the destination have the same visit_id.                         *)
(***************************************************************************)
C2_VisitIdUnique ==
    \A a \in dst : \A b \in dst : a.visit_id = b.visit_id => a = b

\* a statement met the unique key: a Full insert was rejected for a duplicate,
\* or an Incremental statement carried two rows for one visit_id
C2_Witness ==
    \/ pc = "failed" /\ outcome = "duplicate_key"
    \/ /\ SyncEnded("Incremental")
       /\ \E a \in 1..Len(stmt) : \E b \in 1..Len(stmt) :
            a # b /\ stmt[a].visit_id = stmt[b].visit_id

(***************************************************************************)
(* C3: a sync statement (Full or Incremental) selects rows of eligible     *)
(* visits only, and only the selected visit_ids are written: every row the *)
(* statement processed belongs to a visit that has, in the source the      *)
(* statement read, a diagnosis with a known code and a non-blank principal *)
(* diagnosis; every destination row added or changed by the run carries a  *)
(* selected visit_id.  An ineligible visit causes no error: a run that     *)
(* selected no two rows with one visit_id fails only for a database fault. *)
(***************************************************************************)
C3_OnlyEligibleWritten ==
    (mode.kind \in {"Full", "Incremental"} /\ pc \in {"final_count", "finish", "failed"}) =>
        /\ \A k \in 1..Len(stmt) : EligibleVisit(src, stmt[k].hn, stmt[k].vn)
        /\ \A r \in dst \ pre : r.visit_id \in {stmt[k].visit_id : k \in 1..Len(stmt)}
        /\ (pc = "failed" /\ outcome \notin {"connection_error", "db_fault"}) =>
              \E a \in 1..Len(stmt) : \E b \in 1..Len(stmt) :
                  a # b /\ stmt[a].visit_id = stmt[b].visit_id

\* a sync wrote rows while the source held an ineligible visit whose blank
\* principal diagnosis the diagnosis table matches
C3_Witness ==
    /\ pc = "finish"
    /\ mode.kind \in {"Full", "Incremental"}
    /\ dst # pre
    /\ \E o \in src.opdscreen : \E v \in src.vn_stat : \E i \in src.icd101 :
            /\ ~EligibleVisit(src, o.hn, o.vn)
            /\ v.vn = o.vn /\ v.pdx = " " /\ i.code = v.pdx

(***************************************************************************)
(* C4: after a successful Incremental sync, a destination row whose        *)
(* visit_id existed before the run and was selected by the statement keeps *)
(* its hn, vn, sex and visit_date and carries the symptoms, disease_name,  *)
(* medicines and age the statement computed for that visit_id (the last    *)
(* row processed, when the statement computed more than one); a selected   *)
(* visit_id that did not exist is a new row with the computed values.      *)
(***************************************************************************)
C4_UpsertFrame ==
    SyncEnded("Incremental") =>
        \A id \in {stmt[k].visit_id : k \in 1..Len(stmt)} :
            \E r \in dst :
                /\ r.visit_id = id
                /\ SameComputed(r, stmt[Max(Positions(id))])
                /\ IF id \in VisitIds(pre)
                   THEN \E x \in pre : x.visit_id = id /\ SameKept(r, x)
                                       /\ r.icd10_code = x.icd10_code
                   ELSE /\ SameKept(r, stmt[Min(Positions(id))])
                        /\ r.icd10_code = stmt[Min(Positions(id))].icd10_code

\* an Incremental run updated an existing row whose computed age had changed
\* and whose sex in the source differs from the stored one, and inserted a row
C4_Witness ==
    /\ SyncEnded("Incremental")
    /\ \E k \in 1..Len(stmt) : \E x \in pre :
            /\ x.visit_id = stmt[k].visit_id
            /\ x.sex # stmt[k].sex
            /\ ~SameComputed(x, stmt[k])
    /\ \E k \in 1..Len(stmt) : stmt[k].visit_id \notin VisitIds(pre)

(***************************************************************************)
(* C5 as stated: the count Incremental sync reports is 1 for every         *)
(* brand-new visit_id, plus 2 for every visit_id already in the            *)
(* destination whose data changed (the symptoms, disease_name or medicines *)
(* read from the source differ from the stored ones), plus 0 for those     *)
(* whose data did not.  Stated for a statement that computed one row per   *)
(* visit_id, on a connection that reports 0 for a row set to its current   *)
(* values.                                                                 *)
(***************************************************************************)
StmtIds == {stmt[k].visit_id : k \in 1..Len(stmt)}

DataChanged(x, q) ==
    \/ x.symptoms # q.symptoms
    \/ x.disease_name # q.disease_name
    \/ x.medicines # q.medicines

ChangedIds ==
    {id \in StmtIds \cap VisitIds(pre) :
        \E x \in pre : \E k \in Positions(id) : x.visit_id = id /\ DataChanged(x, stmt[k])}

C5_CountByDataChange ==
    (SyncEnded("Incremental") /\ ~foundRows /\ Cardinality(StmtIds) = Len(stmt)) =>
        affected = Cardinality(StmtIds \ VisitIds(pre)) + 2 * Cardinality(ChangedIds)

(***************************************************************************)
(* C5, amended: the count Incremental sync reports is the sum, over the    *)
(* rows its statement computed in the order it processed them, of 1 when   *)
(* the row's visit_id is not in the destination at that point, 2 when it   *)
(* is and one of symptoms, disease_name, medicines, age differs from the   *)
(* stored value, and otherwise 0 (1 on a connection with                   *)
(* CLIENT_FOUND_ROWS).                                                     *)
(***************************************************************************)
Earlier(k) == {j \in 1..(k - 1) : stmt[j].visit_id = stmt[k].visit_id}

\* the row of stmt[k]'s visit_id as stored when stmt[k] is processed
Stored(k) ==
    IF Earlier(k) # {} THEN stmt[Max(Earlier(k))]
    ELSE CHOOSE x \in pre : x.visit_id = stmt[k].visit_id

Contribution(k) ==
    IF Earlier(k) = {} /\ stmt[k].visit_id \notin VisitIds(pre) THEN 1
    ELSE IF ~SameComputed(Stored(k), stmt[k]) THEN 2
    ELSE IF foundRows THEN 1 ELSE 0

RECURSIVE SumTo(_)
SumTo(k) == IF k = 0 THEN 0 ELSE Contribution(k) + SumTo(k - 1)

C5_UpsertCount ==
    SyncEnded("Incremental") =>
        /\ affected = SumTo(Len(stmt))
        /\ stats.total_processed = affected

\* one statement inserted a row, changed a row and found a row unchanged
C5_Witness ==
    /\ SyncEnded("Incremental")
    /\ ~foundRows
    /\ affected = 3
    /\ \E a \in 1..Len(stmt) : \E b \in 1..Len(stmt) : \E c \in 1..Len(stmt) :
            /\ stmt[a].visit_id \notin VisitIds(pre)
            /\ stmt[b].visit_id \in VisitIds(pre) /\ Contribution(b) = 2
            /\ stmt[c].visit_id \in VisitIds(pre) /\ Contribution(c) = 0

(***************************************************************************)
(* C6: after a successful Incremental(h) run, every eligible visit of the  *)
(* source whose visit date lies within the last h hours has a destination  *)
(* row, and that row carries the symptoms, disease_name, medicines and age *)
(* the statement computed for it; the statement is not cut at the row      *)
(* limit.                                                                  *)
(***************************************************************************)
InLastHours(d, t, h) == d # NullDate /\ t - h <= d * 24 /\ d * 24 <= t

C6_WindowComplete ==
    SyncEnded("Incremental") =>
        \A o \in src.opdscreen :
            (EligibleVisit(src, o.hn, o.vn) /\ InLastHours(o.vstdate, now, mode.hours)) =>
                /\ Positions(IdOf(o.hn, o.vn)) # {}
                /\ \E r \in dst :
                    /\ r.visit_id = IdOf(o.hn, o.vn)
                    /\ SameComputed(r, stmt[Max(Positions(IdOf(o.hn, o.vn)))])
                    /\ r.age \in {Age(p.vstdate, now) :
                                    p \in {q \in src.opdscreen : q.hn = o.hn /\ q.vn = o.vn}}

\* an Incremental run processed more visits than the row limit of Full sync
C6_Witness ==
    /\ SyncEnded("Incremental")
    /\ Cardinality({o \in src.opdscreen :
            EligibleVisit(src, o.hn, o.vn) /\ InLastHours(o.vstdate, now, mode.hours)}) > Limit
    /\ Cardinality(dst) > Limit

(***************************************************************************)
(* C7: an Incremental(h) run leaves every destination row unchanged whose  *)
(* visit has, in the source, no visit date inside the window of h hours.   *)
(***************************************************************************)
OutsideWindow(x) ==
    \A o \in src.opdscreen :
        (o.hn = x.hn /\ o.vn = x.vn) =>
            (o.vstdate = NullDate \/ o.vstdate * 24 < now - mode.hours)

C7_OutsideWindowUntouched ==
    (mode.kind = "Incremental" /\ pc \in {"finish", "failed"}) =>
        \A x \in pre : OutsideWindow(x) => x \in dst

\* an Incremental run wrote rows and left alone a row outside the window whose
\* age, computed now, would differ
C7_Witness ==
    /\ SyncEnded("Incremental")
    /\ dst # pre
    /\ \E x \in pre : /\ OutsideWindow(x)
                      /\ x.visit_date # NullDate
                      /\ x.age # Age(x.visit_date, now)
                      /\ \E o \in src.opdscreen : o.hn = x.hn /\ o.vn = x.vn

(***************************************************************************)
(* C8: after a successful Full sync the destination holds exactly the rows *)
(* the run's INSERT statement inserted, none of the rows that were there   *)
(* before the run, and at most Limit rows.                                 *)
(***************************************************************************)
C8_FullReplaces ==
    SyncEnded("Full") =>
        /\ dst = Range(stmt)
        /\ Cardinality(dst) <= Limit

\* a Full sync discarded rows and filled the destination up to the limit
C8_Witness ==
    /\ SyncEnded("Full")
    /\ pre # {}
    /\ pre \cap dst = {}
    /\ Cardinality(dst) = Limit

(***************************************************************************)
(* C9: after a successful Full sync, no eligible visit of the source that  *)
(* is missing from the destination has a visit date strictly later than    *)
(* the visit date of a row that was inserted.                              *)
(***************************************************************************)
LeftOut ==
    {o \in src.opdscreen :
        /\ EligibleVisit(src, o.hn, o.vn)
        /\ ~\E r \in dst : r.hn = o.hn /\ r.vn = o.vn /\ r.visit_date = o.vstdate}

C9_MostRecentKept ==
    SyncEnded("Full") =>
        \A o \in LeftOut : \A r \in dst :
            ~(o.vstdate # NullDate /\ (r.visit_date = NullDate \/ o.vstdate > r.visit_date))

\* the limit cut the result, and a visit left out is strictly older than an
\* inserted one
C9_Witness ==
    /\ SyncEnded("Full")
    /\ Cardinality(dst) = Limit
    /\ \E o \in LeftOut : \E r \in dst : o.vstdate # NullDate /\ o.vstdate < r.visit_date

(***************************************************************************)
(* C10: a Full sync of a source without any eligible visit (opdscreen      *)
(* empty, or no visit of it eligible) that meets no database fault returns *)
(* SyncStats with processed 0, inserted 0, errors 0; such a run fails only *)
(* for a database fault.                                                   *)
(***************************************************************************)
NoEligible == \A o \in src.opdscreen : ~EligibleVisit(src, o.hn, o.vn)

C10_NothingEligibleZeroStats ==
    (mode.kind = "Full" /\ NoEligible) =>
        /\ pc = "finish" => (stats = ZeroStats /\ outcome = "ok" /\ dst = {})
        /\ pc = "failed" => outcome \in {"connection_error", "db_fault"}

\* the INSERT statement ran on a source with visits, none of them eligible
C10_Witness ==
    /\ SyncEnded("Full")
    /\ NoEligible
    /\ src.opdscreen # {}
    /\ \E v \in src.vn_stat : \E i \in src.icd101 : v.pdx = " " /\ i.code = v.pdx
    /\ stats = ZeroStats

(***************************************************************************)
(* C11: a sync statement computes exactly one row for every eligible visit *)
(* (hn, vn) in its scope (every eligible visit for a Full statement the    *)
(* limit did not cut, every eligible visit dated inside the window for an  *)
(* Incremental one), however many diagnosis, prescription, drug or         *)
(* registry records join to the visit.  Stated for a source that holds one *)
(* screening record per visit.                                             *)
(* GROUP BY o.hn, o.vn, i.code, o.vstdate groups on the diagnosis code: a  *)
(* visit with two diagnosis records of different known codes forms two     *)
(* groups, hence two rows with one visit_id.                               *)
(***************************************************************************)
OneScreenRecordPerVisit(S) ==
    \A a \in S.opdscreen : \A b \in S.opdscreen : (a.hn = b.hn /\ a.vn = b.vn) => a = b

StatementRan ==
    /\ mode.kind \in {"Full", "Incremental"}
    /\ \/ pc \in {"final_count", "finish"}
       \/ pc = "failed" /\ outcome \in {"duplicate_key", "not_null"}

InScope(o) ==
    /\ EligibleVisit(src, o.hn, o.vn)
    /\ IF mode.kind = "Full" THEN Len(stmt) < Limit
       ELSE o.vstdate # NullDate /\ o.vstdate * 24 >= now - mode.hours

C11_OneRowPerVisit ==
    (StatementRan /\ OneScreenRecordPerVisit(src)) =>
        \A o \in src.opdscreen :
            InScope(o) => Cardinality(Positions(IdOf(o.hn, o.vn))) = 1

(***************************************************************************)
(* The program run on sources whose patient and visit numbers hold the     *)
(* separator of visit_id: every source of two diagnosed visits of          *)
(* 31 December with hn and vn drawn from KeyHns and KeyVns.                *)
(***************************************************************************)
KeyHns == {"H1", "H1-V1"}

KeyVns == {"V1-X", "X"}

KeySource(ks) ==
    [opdscreen |-> {[hn |-> k[1], vn |-> k[2], cc |-> "cough", vstdate |-> 364] : k \in ks},
     vn_stat |-> {[vn |-> k[2], pdx |-> "A00"] : k \in ks},
     icd101 |-> Icd101,
     opitemrece |-> {},
     drugitems |-> DrugItems,
     hismember |-> {}]

VisitIdInit ==
    /\ src \in {KeySource(ks) : ks \in {x \in SUBSET (KeyHns \X KeyVns) : Cardinality(x) = 2}}
    /\ now = Clock0
    /\ broken = {}
    /\ env = DefaultEnv
    /\ lock = NoThread
    /\ threads = <<>>
    /\ edits = 0
    /\ dst \in {{}, {StaleRow}}
    /\ dstExists = (dst # {})
    /\ pc = "idle"
    /\ mode = NoMode
    /\ checkpoints = <<>>
    /\ foundRows = FALSE
    /\ affected = 0
    /\ stats = NoStats
    /\ outcome = "none"
    /\ pre = {}
    /\ preExists = FALSE
    /\ args = <<>>
    /\ connLog = <<>>
    /\ listed = <<>>
    /\ report = <<>>
    /\ stmt = <<>>
    /\ prevFull = NoPrev

VisitIdNext ==
    \/ Startup
    \/ Connect
    \/ CreateTrainingTable
    \/ ClearTable
    \/ CountSource
    \/ FullInsert
    \/ FinalCount
    \/ IncrementalSync
    \/ RunHealthCheck
    \/ PreviewData
    \/ VerifyDataIntegrity
    \/ Finish
    \/ ExitFailed

VisitIdSpec == VisitIdInit /\ [][VisitIdNext]_vars

(***************************************************************************)
(* C12: two rows a sync statement computes for visits with different       *)
(* (hn, vn) carry different visit_ids.                                     *)
(* CONCAT(o.hn, '-', o.vn) does not escape the separator: the visits       *)
(* ("H1", "V1-X") and ("H1-V1", "X") both get "H1-V1-X".                   *)
(***************************************************************************)
C12_VisitIdInjective ==
    StatementRan =>
        \A a \in 1..Len(stmt) : \A b \in 1..Len(stmt) :
            (stmt[a].hn # stmt[b].hn \/ stmt[a].vn # stmt[b].vn) =>
                stmt[a].visit_id # stmt[b].visit_id

(***************************************************************************)
(* The program run on every shape of one diagnosed visit (H1, V1): its     *)
(* complaint, its date, its prescription line items and the registry       *)
(* entries of its patient drawn from the sets below.                       *)
(***************************************************************************)
ShapeComplaints == {NULL, "", "cough"}

\* no date, 31 December, 1 January of the next year, 1 January of the year after
ShapeDates == {NullDate, 364, 365, 730}

\* X1 has no drug record, D1 and D3 name the same drug, D4 has no strength
ShapeItems == {{}, {"X1"}, {"D1"}, {"D1", "D3"}, {"D1", "D2", "D3"}, {"D2", "D4"}}

\* the sex of every registry entry of the patient
ShapeRegistry == {{}, {NULL}, {"F"}, {"M", "F"}}

ShapeSource(cc, d, items, sexes) ==
    [opdscreen |-> {[hn |-> "H1", vn |-> "V1", cc |-> cc, vstdate |-> d]},
     vn_stat |-> {[vn |-> "V1", pdx |-> "A00"]},
     icd101 |-> Icd101,
     opitemrece |-> {[vn |-> "V1", icode |-> c] : c \in items},
     drugitems |-> DrugItems,
     hismember |-> {[hn |-> "H1", sex |-> x] : x \in sexes}]

ShapeInit ==
    /\ src \in {ShapeSource(cc, d, items, sexes) :
                    cc \in ShapeComplaints, d \in ShapeDates,
                    items \in ShapeItems, sexes \in ShapeRegistry}
    /\ now = Clock0
    /\ broken = {}
    /\ env = DefaultEnv
    /\ lock = NoThread
    /\ threads = <<>>
    /\ edits = 0
    /\ dst = {}
    /\ dstExists = FALSE
    /\ pc = "idle"
    /\ mode = NoMode
    /\ checkpoints = <<>>
    /\ foundRows = FALSE
    /\ affected = 0
    /\ stats = NoStats
    /\ outcome = "none"
    /\ pre = {}
    /\ preExists = FALSE
    /\ args = <<>>
    /\ connLog = <<>>
    /\ listed = <<>>
    /\ report = <<>>
    /\ stmt = <<>>
    /\ prevFull = NoPrev

ShapeNext ==
    \/ Tick
    \/ Startup
    \/ Connect
    \/ CreateTrainingTable
    \/ ClearTable
    \/ CountSource
    \/ FullInsert
    \/ FinalCount
    \/ IncrementalSync
    \/ RunHealthCheck
    \/ PreviewData
    \/ VerifyDataIntegrity
    \/ Finish
    \/ ExitFailed

ShapeSpec == ShapeInit /\ [][ShapeNext]_vars

(***************************************************************************)
(* Vocabulary of the row-shaping properties                                *)
(***************************************************************************)
\* the prescription line items of visit vn
ItemsOf(S, vn) == {op \in S.opitemrece : op.vn = vn}

\* the drug records, with a name, that the items of visit vn resolve to
DrugsOf(S, vn) ==
    {d \in S.drugitems : d.name # NULL /\ \E op \in ItemsOf(S, vn) : op.icode = d.icode}

RegistryOf(S, hn) == {h \in S.hismember : h.hn = hn}

\* the screening records row r was computed from
ScreenOf(S, r) ==
    {o \in S.opdscreen : o.hn = r.hn /\ o.vn = r.vn /\ o.vstdate = r.visit_date}

(***************************************************************************)
(* C13 as stated: a computed row has medicines "Unknown" when the visit    *)
(* has no prescription line items and carries a source value otherwise,    *)
(* has symptoms "Unknown" when the complaint is absent and the complaint   *)
(* otherwise, has sex "U" when the patient has no registry entry and the   *)
(* registered sex otherwise.                                               *)
(***************************************************************************)
C13_Defaulting ==
    StatementRan =>
        \A k \in 1..Len(stmt) :
            /\ (stmt[k].medicines = "Unknown") <=> (ItemsOf(src, stmt[k].vn) = {})
            /\ \E o \in ScreenOf(src, stmt[k]) :
                    stmt[k].symptoms = IF o.cc = NULL THEN "Unknown" ELSE o.cc
            /\ IF RegistryOf(src, stmt[k].hn) = {} THEN stmt[k].sex = "U"
               ELSE \E h \in RegistryOf(src, stmt[k].hn) : stmt[k].sex = h.sex

(***************************************************************************)
(* C13, amended: a computed row has medicines "Unknown" exactly when no    *)
(* prescription line item of the visit resolves to a drug record with a    *)
(* name (no items, or items without such a drug record); symptoms is       *)
(* "Unknown" when the complaint of the screening record is NULL and is the *)
(* complaint otherwise, an empty one included; sex is "U" when the patient *)
(* has no registry entry or the entry has no sex, and is the registered    *)
(* sex otherwise.                                                          *)
(***************************************************************************)
C13_Defaults ==
    StatementRan =>
        \A k \in 1..Len(stmt) :
            /\ (stmt[k].medicines = "Unknown") <=> (DrugsOf(src, stmt[k].vn) = {})
            /\ \E o \in ScreenOf(src, stmt[k]) :
                    stmt[k].symptoms = IF o.cc = NULL THEN "Unknown" ELSE o.cc
            /\ IF RegistryOf(src, stmt[k].hn) = {} THEN stmt[k].sex = "U"
               ELSE \E h \in RegistryOf(src, stmt[k].hn) :
                        stmt[k].sex = IF h.sex = NULL THEN "U" ELSE h.sex

\* a row was computed with every default, for a visit with a line item and a
\* patient with a registry entry
C13_Witness ==
    /\ StatementRan
    /\ \E k \in 1..Len(stmt) :
            /\ stmt[k].medicines = "Unknown" /\ ItemsOf(src, stmt[k].vn) # {}
            /\ stmt[k].symptoms = "Unknown"
            /\ stmt[k].sex = "U" /\ RegistryOf(src, stmt[k].hn) # {}

(***************************************************************************)
(* C14 as stated: for a visit with linked prescriptions, medicines holds   *)
(* every distinct "name strength" string of the visit's items exactly      *)
(* once, joined with "|", and nothing else; items that resolve to          *)
(* "Paracetamol 500mg" and "ORS 250mg" give "Paracetamol 500mg|ORS 250mg". *)
(***************************************************************************)
\* the "name strength" string of a drug record
NameStrength(d) == d.name \o " " \o (IF d.strength = NULL THEN "" ELSE d.strength)

DrugTextsOf(S, vn) == {NameStrength(d) : d \in DrugsOf(S, vn)}

C14_MedicinesAsInExample ==
    StatementRan =>
        \A k \in 1..Len(stmt) :
            /\ DrugTextsOf(src, stmt[k].vn) # {} =>
                 \E q \in SeqsOf(DrugTextsOf(src, stmt[k].vn)) :
                     stmt[k].medicines = JoinWith(q, "|")
            /\ DrugTextsOf(src, stmt[k].vn) = {"Paracetamol 500mg", "ORS 250mg"} =>
                 stmt[k].medicines = "Paracetamol 500mg|ORS 250mg"

(***************************************************************************)
(* C14, amended: for a visit with linked prescriptions, medicines holds    *)
(* every distinct "name strength" string of the visit's items exactly      *)
(* once, joined with "|", and nothing else, in an order the database       *)
(* chooses: items that resolve to "Paracetamol 500mg" and "ORS 250mg" give *)
(* "Paracetamol 500mg|ORS 250mg" or "ORS 250mg|Paracetamol 500mg".         *)
(***************************************************************************)
C14_MedicinesList ==
    StatementRan =>
        \A k \in 1..Len(stmt) :
            /\ DrugTextsOf(src, stmt[k].vn) # {} =>
                 \E q \in SeqsOf(DrugTextsOf(src, stmt[k].vn)) :
                     stmt[k].medicines = JoinWith(q, "|")
            /\ DrugTextsOf(src, stmt[k].vn) = {"Paracetamol 500mg", "ORS 250mg"} =>
                 stmt[k].medicines \in {"Paracetamol 500mg|ORS 250mg",
                                        "ORS 250mg|Paracetamol 500mg"}

\* a row was computed for a visit with three line items, two of them resolving
\* to the same string
C14_Witness ==
    /\ StatementRan
    /\ \E k \in 1..Len(stmt) :
            /\ Cardinality(ItemsOf(src, stmt[k].vn)) = 3
            /\ DrugTextsOf(src, stmt[k].vn) = {"Paracetamol 500mg", "ORS 250mg"}
            /\ stmt[k].medicines = "Paracetamol 500mg|ORS 250mg"

(***************************************************************************)
(* C15: the age of a row a sync statement computes is the calendar year of *)
(* the statement's CURDATE() minus the year of the row's visit_date        *)
(* (negative for a visit dated in a later year), and 0 when visit_date is  *)
(* NULL.                                                                   *)
(***************************************************************************)
C15_AgeIsYearDifference ==
    StatementRan =>
        \A k \in 1..Len(stmt) :
            stmt[k].age = IF stmt[k].visit_date = NullDate THEN 0
                          ELSE Year(now \div 24) - Year(stmt[k].visit_date)

\* a row was computed for a visit dated in the year after the current one
C15_Witness ==
    /\ StatementRan
    /\ \E k \in 1..Len(stmt) :
            /\ stmt[k].visit_date # NullDate
            /\ Year(stmt[k].visit_date) > Year(now \div 24)
            /\ stmt[k].age < 0

(***************************************************************************)
(* C16 as stated: throughout a run in HealthCheck, Preview or Verify mode  *)
(* the destination is what it was when the run started: the table exists   *)
(* or not as before, and holds the same rows.                              *)
(***************************************************************************)
ReadOnlyRun == pc # "idle" /\ mode \in ReadOnlyModes

C16_ReadOnlyRun ==
    ReadOnlyRun => (dst = pre /\ dstExists = preExists)

(***************************************************************************)
(* C16, amended: throughout a run in HealthCheck, Preview or Verify mode   *)
(* the destination holds the rows it held when the run started (nothing is *)
(* truncated, Preview stores none of the rows it shows) and a table that   *)
(* existed is kept; the step that ensures the table, which precedes the    *)
(* dispatch on the mode, creates it, empty, when it did not exist.         *)
(***************************************************************************)
C16_ReadOnlyRows ==
    ReadOnlyRun =>
        /\ dst = pre
        /\ preExists => dstExists
        /\ pc \in {"health", "preview", "verify", "finish"} => dstExists

\* a Preview showed rows on a destination that had no table: the table was
\* created and is empty
C16_Witness ==
    /\ SyncEnded("Preview")
    /\ report[1].count > 0
    /\ ~preExists
    /\ dstExists
    /\ dst = {}

(***************************************************************************)
(* The diagnostic modes run on databases that reject some of the           *)
(* diagnostic queries: at most MaxBroken of the seven counts of            *)
(* run_health_check and the six queries of verify_data_integrity fail.     *)
(***************************************************************************)
HealthChecks == SourceTables \o <<DestinationTable>>

AllChecks == Range(HealthChecks) \cup Range(VerifyChecks)

\* rows of earlier syncs, now three and four years old; one has no symptoms,
\* one no disease name
AgedRows ==
    {[StaleRow EXCEPT !.visit_id = "H2-V5", !.vn = "V5", !.age = 3],
     [StaleRow EXCEPT !.visit_id = "H3-V6", !.hn = "H3", !.vn = "V6", !.age = 4,
                      !.symptoms = "cough", !.disease_name = "Unknown"]}

DiagInit ==
    /\ src \in {EmptySource, BusySource}
    /\ now = Clock0
    /\ broken \in {B \in SUBSET AllChecks : Cardinality(B) <= MaxBroken}
    /\ env = DefaultEnv
    /\ lock = NoThread
    /\ threads = <<>>
    /\ edits = 0
    /\ dst \in {{}, {StaleRow}, AgedRows}
    /\ dstExists \in IF dst = {} THEN BOOLEAN ELSE {TRUE}
    /\ pc = "idle"
    /\ mode = NoMode
    /\ checkpoints = <<>>
    /\ foundRows = FALSE
    /\ affected = 0
    /\ stats = NoStats
    /\ outcome = "none"
    /\ pre = {}
    /\ preExists = FALSE
    /\ args = <<>>
    /\ connLog = <<>>
    /\ listed = <<>>
    /\ report = <<>>
    /\ stmt = <<>>
    /\ prevFull = NoPrev

\* the program is started with health, preview or verify
DiagStartup == \E m \in ReadOnlyModes : Start(m)

DiagNext ==
    \/ DiagStartup
    \/ Connect
    \/ CreateTrainingTable
    \/ RunHealthCheck
    \/ PreviewData
    \/ VerifyDataIntegrity
    \/ Finish
    \/ ExitFailed

DiagSpec == DiagInit /\ [][DiagNext]_vars

(***************************************************************************)
(* C17: a HealthCheck that reaches its mode branch logs one line for each  *)
(* of the six source tables and one for the destination table, in order,   *)
(* each exactly once, and a Verify one line for each of its six metrics,   *)
(* whichever of the queries fail or count an empty table: a failed query   *)
(* is logged as an error, an empty source table is flagged, and the mode   *)
(* completes successfully.  A HealthCheck or Verify run fails only before  *)
(* its mode branch (connection, table creation).                           *)
(***************************************************************************)
LinesOf(checks) ==
    /\ Len(report) = Len(checks)
    /\ \A k \in 1..Len(checks) :
        /\ report[k].check = checks[k]
        /\ (report[k].result = "error") <=> (checks[k] \in broken)

C17_EveryCheckOnce ==
    /\ (pc = "finish" /\ mode.kind = "HealthCheck") =>
            /\ outcome = "ok"
            /\ LinesOf(HealthChecks)
            /\ \A k \in 1..Len(SourceTables) :
                    (report[k].result = "EMPTY") <=>
                        (SourceTables[k] \notin broken /\ src[SourceTables[k]] = {})
    /\ (pc = "finish" /\ mode.kind = "Verify") =>
            /\ outcome = "ok"
            /\ LinesOf(VerifyChecks)
    /\ (pc = "failed" /\ mode.kind \in {"HealthCheck", "Verify"}) =>
            \A k \in 1..Len(checkpoints) : checkpoints[k] # "Training table created"

\* a HealthCheck completed although its first query and one more failed and a
\* source table was empty
C17_Witness ==
    /\ SyncEnded("HealthCheck")
    /\ "opdscreen" \in broken
    /\ Cardinality(broken \cap Range(HealthChecks)) = 2
    /\ \E k \in 1..Len(report) : report[k].result = "EMPTY"
    /\ \E k \in 1..Len(report) : report[k].result = "records"

(***************************************************************************)
(* C18: Verify on an empty destination table shows 0 for the five count    *)
(* metrics and the placeholder "N/A" for the average age; on any           *)
(* destination, a metric whose query succeeded shows the placeholder only  *)
(* when its aggregate is NULL.                                             *)
(* verify_data_integrity decodes the column as a String: sqlx rejects that *)
(* for a BIGINT or DECIMAL column, .ok() turns the error into None, and    *)
(* every metric shows "N/A".                                               *)
(***************************************************************************)
C18_VerifyShowsCounts ==
    SyncEnded("Verify") =>
        \A k \in 1..Len(report) :
            report[k].result = "ok" =>
                /\ (dst = {} /\ k <= 5) => report[k].shown = "0"
                /\ (dst = {} /\ k = 6) => report[k].shown = "N/A"
                /\ report[k].shown = "N/A" => VerifyColumn(dst, report[k].check).isNull

(***************************************************************************)
(* C19 as stated: at every point of a sync run, and in what a run that     *)
(* stops leaves behind, the destination holds either the rows it held when *)
(* the run started or the completed result of the mode.                    *)
(***************************************************************************)
SyncRun == pc # "idle" /\ mode.kind \in {"Full", "Incremental"}

\* the run's statement has loaded its rows
ResultComplete == pc \in {"final_count", "finish"}

C19_OneAtomicMutation ==
    SyncRun => (dst = pre \/ ResultComplete)

(***************************************************************************)
(* C19, amended: every statement that changes the destination is atomic    *)
(* by itself.  Incremental sync changes it with one statement: the         *)
(* destination holds the rows of the start of the run until the upsert has *)
(* completed, and still holds them when the run fails.  Full sync changes  *)
(* it with two statements, TRUNCATE and INSERT, without a transaction: the *)
(* destination holds the rows of the start until the truncation, is empty  *)
(* from the truncation to the insert, and holds exactly the statement's    *)
(* rows afterwards; a Full run that fails leaves the rows of the start,    *)
(* the empty table, or (when only the final count failed) the statement's  *)
(* rows, never a part of them.                                             *)
(***************************************************************************)
C19_StatementAtomic ==
    /\ (pc # "idle" /\ mode.kind = "Incremental") =>
            (dst = pre \/ pc = "finish")
    /\ (pc # "idle" /\ mode.kind = "Full") =>
            /\ pc \in {"connect", "create_table", "clear_table"} => dst = pre
            /\ pc \in {"count_source", "insert"} => dst = {}
            /\ pc = "final_count" => dst = Range(stmt)
            /\ pc = "finish" => dst = Range(stmt)
            /\ pc = "failed" => (dst = pre \/ dst = {} \/ dst = Range(stmt))

\* the INSERT of a Full sync was rejected: the rows of the start are gone, none
\* of the statement's rows is there
C19_Witness ==
    /\ pc = "failed"
    /\ mode.kind = "Full"
    /\ outcome = "duplicate_key"
    /\ pre # {}
    /\ Len(stmt) > 1
    /\ dst = {}

(***************************************************************************)
(* The order of the steps of a run                                         *)
(***************************************************************************)
\* the position of a step in main: the mode branches share one position
StepRank(p) ==
    CASE p = "idle" -> 0
      [] p = "connect" -> 1
      [] p = "create_table" -> 2
      [] p \in {"clear_table", "incremental", "health", "preview", "verify"} -> 3
      [] p = "count_source" -> 4
      [] p = "insert" -> 5
      [] p = "final_count" -> 6
      [] p = "finish" -> 7
      [] p = "failed" -> 8

\* the first step of the branch main's match takes for a mode
BranchOf(kind) ==
    CASE kind = "Full" -> "clear_table"
      [] kind = "Incremental" -> "incremental"
      [] kind = "HealthCheck" -> "health"
      [] kind = "Preview" -> "preview"
      [] kind = "Verify" -> "verify"

BranchSteps == {"clear_table", "incremental", "health", "preview", "verify"}

FullSteps == {"clear_table", "count_source", "insert", "final_count"}

Reached(label) == \E i \in 1..Len(checkpoints) : checkpoints[i] = label

\* a step of a run, from one position of main to the next
RunStep ==
    \* no retry, no re-entry: every step moves forward, the run ends in idle
    /\ pc # "idle" => pc' # pc
    /\ pc' # "idle" => StepRank(pc') > StepRank(pc)
    /\ (pc # "idle" /\ pc' = "idle") => pc \in {"finish", "failed"}
    \* the mode is read once
    /\ (pc # "idle" /\ pc' # "idle") => mode' = mode
    \* connections, then the schema
    /\ pc' = "create_table" => (pc = "connect" /\ Reached("Connections verified")')
    /\ dstExists' # dstExists =>
            (pc = "create_table" /\ Reached("Connections verified"))
    \* the schema, then exactly one branch, the one of the mode
    /\ pc' \in BranchSteps =>
            /\ pc = "create_table"
            /\ pc' = BranchOf(mode.kind)
            /\ dstExists'
            /\ Reached("Training table created")'
    /\ pc' \in FullSteps => mode.kind = "Full"
    \* truncation in Full only, before transform-and-load
    /\ dst' # dst => pc \in {"clear_table", "insert", "incremental"}
    /\ pc \in {"insert", "incremental"} => Reached("Training table created")
    /\ pc = "insert" => (Reached("Table cleared") /\ dst = {})
    \* a failure ends the run: nothing follows but the exit
    /\ pc' = "failed" =>
            /\ outcome' \notin {"none", "ok"}
            /\ checkpoints' = checkpoints
            /\ stats' = stats
    /\ pc = "failed" => (pc' = "idle" /\ UNCHANGED dbVars)
    /\ pc' = "finish" => outcome' = "ok"

(***************************************************************************)
(* C20: a run is a linear sequence without retry or re-entry.  Both        *)
(* connections are verified before the destination table is created, the   *)
(* table is created before the branch of the mode starts, exactly the      *)
(* branch of the mode runs, the truncation happens in Full only and before *)
(* the count and the INSERT, no step is issued twice, and a step that      *)
(* fails is followed by nothing but the exit with an error.                *)
(***************************************************************************)
C20_LinearRun == [][RunStep]_vars

\* a Full run failed after the truncation: the final count did not run
C20_Witness ==
    /\ pc = "failed"
    /\ mode.kind = "Full"
    /\ outcome = "db_fault"
    /\ Reached("Table cleared")
    /\ pre # {}
    /\ dst = {}
    /\ stmt = <<>>
    /\ stats = NoStats

(***************************************************************************)
(* C21: the SyncStats a Full sync returns have total_processed =           *)
(* total_inserted = the rows affected by the INSERT, which is the number   *)
(* of rows the statement computed and the number of rows in the            *)
(* destination at the end of the run (0 for all of them when the run       *)
(* stopped at an empty opdscreen); the SyncStats an Incremental sync       *)
(* returns have total_processed = total_inserted = the affected-rows count *)
(* of the upsert; total_errors is 0 in both.                               *)
(***************************************************************************)
C21_StatsAreAffectedRows ==
    /\ SyncEnded("Full") =>
            /\ stats.total_processed = stats.total_inserted
            /\ stats.total_inserted = affected
            /\ affected = Len(stmt)
            /\ affected = Cardinality(dst)
            /\ stats.total_errors = 0
    /\ SyncEnded("Incremental") =>
            /\ stats.total_processed = affected
            /\ stats.total_inserted = affected
            /\ stats.total_errors = 0

\* a Full sync replaced an older row by two rows and reported 2
C21_Witness ==
    /\ SyncEnded("Full")
    /\ pre # {}
    /\ stats.total_processed = 2
    /\ Cardinality(dst) = 2

(***************************************************************************)
(* The command line                                                        *)
(***************************************************************************)
\* the third argument of the incremental command
HoursArguments == {"48", "+48", "007", "-5", "2147483647", "2147483648",
                   "99999999999", "", "-", "abc", "48h", "4 8", "1.5"}

CliLines ==
    {<<"sync">>}
    \cup {<<"sync", c>> : c \in {"incremental", "health", "preview", "verify", "--help",
                                 "-h", "full", "Incremental", "help", ""}}
    \cup {<<"sync", "incremental", h>> : h \in HoursArguments}
    \cup {<<"sync", "health", "48">>, <<"sync", "-h", "incremental">>,
          <<"sync", "incremental", "48", "health">>}

CliStartup == \E a \in CliLines : Launch(a)

CliNext ==
    \/ CliStartup
    \/ ExitProcess
    \/ Connect
    \/ CreateTrainingTable
    \/ ClearTable
    \/ CountSource
    \/ FullInsert
    \/ FinalCount
    \/ IncrementalSync
    \/ RunHealthCheck
    \/ PreviewData
    \/ VerifyDataIntegrity
    \/ Finish
    \/ ExitFailed

CliSpec == Init /\ [][CliNext]_vars

\* the hours arguments that are a number of hours, with their values
HoursTable ==
    {<<"48", 48>>, <<"+48", 48>>, <<"007", 7>>, <<"-5", 0 - 5>>,
     <<"2147483647", 2147483647>>}

\* the run in progress has not reached a database
NothingTouched ==
    /\ connLog = <<>>
    /\ ~Reached("Source pool created")
    /\ dst = pre
    /\ dstExists = preExists

\* C22: the command line is mapped to the mode as documented: no command is
\* Full; incremental takes its hours from a valid third argument and is 24
\* hours without one or with one that is not a number; health, preview and
\* verify select the diagnostic modes; --help and -h leave with code 0 and any
\* other command with code 1, before a connection is opened or a destination
\* row is touched.
C22_CliSelection ==
    args # <<>> =>
        LET selected(m) == pc # "exited" /\ mode = m
            exited(code) == /\ pc = "exited"
                            /\ outcome = code
                            /\ NothingTouched
        IN  /\ Len(args) = 1 => selected([kind |-> "Full", hours |-> 0])
            /\ Len(args) > 1 =>
                 /\ args[2] = "incremental" =>
                      /\ mode.kind = "Incremental"
                      /\ pc # "exited"
                      /\ Len(args) = 2 => mode.hours = 24
                      /\ Len(args) > 2 =>
                           /\ \A e \in HoursTable : args[3] = e[1] => mode.hours = e[2]
                           /\ (\A e \in HoursTable : args[3] # e[1]) => mode.hours = 24
                 /\ args[2] = "health" => selected([kind |-> "HealthCheck", hours |-> 0])
                 /\ args[2] = "preview" => selected([kind |-> "Preview", hours |-> 0])
                 /\ args[2] = "verify" => selected([kind |-> "Verify", hours |-> 0])
                 /\ args[2] \in {"--help", "-h"} => exited("exit_0")
                 /\ args[2] \notin {"incremental", "health", "preview", "verify",
                                    "--help", "-h"} => exited("exit_1")

C22_Witness ==
    /\ pc = "exited"
    /\ outcome = "exit_1"
    /\ pre # {}
    /\ prevFull = NoPrev
    /\ args = <<"sync", "full">>

(***************************************************************************)
(* The performance monitor of a run                                        *)
(***************************************************************************)
PerfNext ==
    \/ Startup
    \/ Connect
    \/ CreateTrainingTable
    \/ ClearTable
    \/ CountSource
    \/ FullInsert
    \/ FinalCount
    \/ IncrementalSync
    \/ RunHealthCheck
    \/ PreviewData
    \/ VerifyDataIntegrity
    \/ Complete
    \/ ExitDone
    \/ ExitFailed

PerfInit ==
    InitFrom({EmptySource, BusySource, UndiagnosedSource, TwiceDiagnosedSource,
              TwiceDatedSource})

PerfSpec == PerfInit /\ [][PerfNext]_vars

\* s is t or the beginning of t
IsPrefix(s, t) == Len(s) <= Len(t) /\ SubSeq(t, 1, Len(s)) = s

FullRunLabels ==
    <<"Environment loaded", "Configuration loaded", "CLI parsed", "Source pool created",
      "Destination pool created", "Connections verified", "Training table created",
      "Table cleared", "Mode execution completed">>

\* C23: while a run lasts, a step leaves the checkpoint log as it is or adds
\* entries at its end; the report lists the log in order, numbered 1..n; the
\* log of a successful Full run is the documented one.
C23_CheckpointLog ==
    /\ [][(pc # "idle" /\ pc' # "idle") => IsPrefix(checkpoints, checkpoints')]_vars
    /\ [](pc = "done" =>
            /\ Len(listed) = Len(checkpoints)
            /\ \A k \in 1..Len(listed) :
                    listed[k].index = k /\ listed[k].label = checkpoints[k])
    /\ []((pc = "done" /\ mode.kind = "Full") => checkpoints = FullRunLabels)

C23_Witness ==
    /\ pc = "done"
    /\ mode.kind = "Full"
    /\ outcome = "ok"
    /\ Len(listed) = 9
    /\ listed[9] = [index |-> 9, label |-> "Mode execution completed"]
    /\ dst # {}

(***************************************************************************)
(* The performance monitor shared by several threads                       *)
(*                                                                         *)
(* checkpoint and report take &self and the log is a Mutex<Vec<..>>: the   *)
(* threads that share the monitor write one log.  Workers call checkpoint, *)
(* one thread calls report.                                                *)
(***************************************************************************)
MaxCalls == 2

Workers == {1, 2}

Reporter == 3

\* the label of the k-th checkpoint call of worker t
LabelOf(t, k) == "T" \o ToString(t) \o "." \o ToString(k)

\* a thread: where it is, the checkpoint calls it has finished, and the
\* length of the Vec it read
ThreadStart == [pc |-> "ready", calls |-> 0, len |-> 0]

MonitorInit ==
    /\ src = EmptySource
    /\ now = Clock0
    /\ broken = {}
    /\ env = DefaultEnv
    /\ lock = NoThread
    /\ threads = [t \in Workers \cup {Reporter} |-> ThreadStart]
    /\ edits = 0
    /\ dst = {}
    /\ dstExists = FALSE
    /\ pc = "idle"
    /\ mode = NoMode
    /\ checkpoints \in {<<>>, <<"Environment loaded">>}
    /\ foundRows = FALSE
    /\ affected = 0
    /\ stats = NoStats
    /\ outcome = "none"
    /\ pre = {}
    /\ preExists = FALSE
    /\ args = <<>>
    /\ connLog = <<>>
    /\ listed = <<>>
    /\ report = <<>>
    /\ stmt = <<>>
    /\ prevFull = NoPrev

\* faulty variant, for comparison: lock() returns without waiting
LockIgnored(t) == TRUE

\* Mutex::lock returns when no thread holds the mutex
LockFree(t) == lock = NoThread

otherVars == <<src, now, broken, env, edits, dstExists, dst, pc, mode, foundRows, affected,
               stats, outcome, report, pre, preExists, args, connLog, stmt, prevFull>>

\* checkpoint and report: self.checkpoints.lock()
Acquire(t, next) ==
    /\ threads[t].pc = "ready"
    /\ LockFree(t)
    /\ lock' = t
    /\ threads' = [threads EXCEPT ![t].pc = next]
    /\ UNCHANGED <<checkpoints, listed>>

\* the guard goes out of scope
Release(t, next) ==
    /\ lock' = NoThread
    /\ threads' = [threads EXCEPT ![t].pc = next]
    /\ UNCHANGED <<checkpoints, listed>>

\* checkpoint(label) of a worker, in four steps: lock, Vec::push reads the
\* length, writes the entry behind it and sets the new length, unlock
CheckpointLock(t) ==
    /\ threads[t].calls < MaxCalls
    /\ Acquire(t, "locked")
    /\ UNCHANGED otherVars

PushRead(t) ==
    /\ threads[t].pc = "locked"
    /\ threads' = [threads EXCEPT ![t].pc = "push", ![t].len = Len(checkpoints)]
    /\ UNCHANGED <<lock, checkpoints, listed>>
    /\ UNCHANGED otherVars

PushWrite(t) ==
    /\ threads[t].pc = "push"
    /\ checkpoints' = SubSeq(checkpoints, 1, threads[t].len)
                        \o <<LabelOf(t, threads[t].calls + 1)>>
    /\ threads' = [threads EXCEPT ![t].pc = "pushed"]
    /\ UNCHANGED <<lock, listed>>
    /\ UNCHANGED otherVars

CheckpointUnlock(t) ==
    /\ threads[t].pc = "pushed"
    /\ lock' = NoThread
    /\ threads' = [threads EXCEPT ![t].pc = "ready", ![t].calls = @ + 1]
    /\ UNCHANGED <<checkpoints, listed>>
    /\ UNCHANGED otherVars

\* report: lock, one line for each entry while the guard is held, unlock
ReportLock ==
    /\ listed = <<>>
    /\ Acquire(Reporter, "listing")
    /\ UNCHANGED otherVars

ReportEntry ==
    /\ threads[Reporter].pc = "listing"
    /\ Len(listed) < Len(checkpoints)
    /\ listed' = Append(listed, [index |-> Len(listed) + 1,
                                 label |-> checkpoints[Len(listed) + 1]])
    /\ UNCHANGED <<lock, threads, checkpoints>>
    /\ UNCHANGED otherVars

ReportUnlock ==
    /\ threads[Reporter].pc = "listing"
    /\ Len(listed) >= Len(checkpoints)
    /\ Release(Reporter, "returned")
    /\ UNCHANGED otherVars

MonitorNext ==
    \/ \E t \in Workers : CheckpointLock(t)
    \/ \E t \in Workers : PushRead(t)
    \/ \E t \in Workers : PushWrite(t)
    \/ \E t \in Workers : CheckpointUnlock(t)
    \/ ReportLock
    \/ ReportEntry
    \/ ReportUnlock

MonitorSpec == MonitorInit /\ [][MonitorNext]_vars

\* how many entries of the log are the label l
Occurrences(l) == Cardinality({k \in 1..Len(checkpoints) : checkpoints[k] = l})

\* C24: with several threads calling checkpoint, each call that has returned
\* has exactly one entry in the log and no call has more than one; what a
\* concurrent report has listed is a prefix of the log, numbered from 1.
C24_ConcurrentAppends ==
    /\ \A t \in Workers : \A k \in 1..MaxCalls :
            /\ Occurrences(LabelOf(t, k)) <= 1
            /\ k <= threads[t].calls => Occurrences(LabelOf(t, k)) = 1
            /\ k > threads[t].calls + 1 => Occurrences(LabelOf(t, k)) = 0
    /\ Len(listed) <= Len(checkpoints)
    /\ \A k \in 1..Len(listed) :
            listed[k] = [index |-> k, label |-> checkpoints[k]]

C24_Witness ==
    /\ \A t \in Workers : threads[t].calls = MaxCalls
    /\ threads[Reporter].pc = "returned"
    /\ Len(listed) = 2
    /\ Len(checkpoints) = 1 + 2 * MaxCalls
    /\ checkpoints[2] = LabelOf(2, 1)
    /\ checkpoints[3] = LabelOf(1, 1)

\* The Full run in progress has ended after TRUNCATE without inserting a row:
\* the count query failed, opdscreen is empty, or the INSERT was rejected,
\* failed or selected nothing
StoppedAfterTruncate ==
    /\ mode.kind = "Full"
    /\ Reached("Table cleared")
    /\ pc \in {"finish", "done", "failed"}
    /\ affected = 0

\* C25: a Full run that stops after the truncate step without inserting
\* leaves the destination table empty; the rows it held before the run are gone.
C25_TruncateNotUndone == StoppedAfterTruncate => dst = {}

C25_Witness ==
    /\ StoppedAfterTruncate
    /\ pc = "failed"
    /\ outcome = "duplicate_key"
    /\ stmt # <<>>
    /\ pre # {}
    /\ dst = {}

\* the other two ways to stop: the count query fails; opdscreen is empty
C25_CountFailed ==
    /\ StoppedAfterTruncate
    /\ outcome = "db_fault"
    /\ stmt = <<>>
    /\ pre # {}

C25_ShortCircuit ==
    /\ StoppedAfterTruncate
    /\ outcome = "ok"
    /\ src.opdscreen = {}
    /\ pre # {}

\* C26: each destination row's disease_name is the name of the diagnosis
\* whose code is the row's icd10_code.
C26_CodeMatchesName ==
    \A r \in dst : \E i \in src.icd101 : i.code = r.icd10_code /\ i.name = r.disease_name

\* Two rows of the statement s are for the same hn and vn, hence the same
\* visit_id, and differ in the visit date or in the diagnosis code
ConflictingGroups(s) ==
    \E a \in 1..Len(s) : \E b \in 1..Len(s) :
        /\ a # b
        /\ s[a].hn = s[b].hn
        /\ s[a].vn = s[b].vn
        /\ s[a].visit_id = s[b].visit_id
        /\ s[a].visit_date # s[b].visit_date \/ s[a].icd10_code # s[b].icd10_code

\* C27: when two rows of the Full sync's INSERT ... SELECT have the same
\* visit_id, the run fails and the destination holds none of the statement's
\* rows; whatever happens, the destination holds all of the statement's rows
\* or none of them.
C27_AllOrNothing ==
    (mode.kind = "Full" /\ stmt # <<>>) =>
        /\ ConflictingGroups(stmt) =>
                /\ pc = "failed"
                /\ outcome = "duplicate_key"
                /\ dst = {}
        /\ dst = {} \/ dst = Range(stmt)

C27_Witness ==
    /\ mode.kind = "Full"
    /\ pc = "failed"
    /\ Len(stmt) = 2
    /\ stmt[1].visit_id = stmt[2].visit_id
    /\ stmt[1].visit_date # stmt[2].visit_date
    /\ stmt[1].icd10_code = stmt[2].icd10_code
    /\ pre # {}
    /\ dst = {}

\* the same for two diagnosis codes
C27_TwoCodes ==
    /\ mode.kind = "Full"
    /\ pc = "failed"
    /\ Len(stmt) = 2
    /\ stmt[1].visit_id = stmt[2].visit_id
    /\ stmt[1].visit_date = stmt[2].visit_date
    /\ stmt[1].icd10_code # stmt[2].icd10_code
    /\ dst = {}

\* a Full sync that loaded its rows
C27_Loaded ==
    /\ mode.kind = "Full"
    /\ pc = "done"
    /\ Cardinality(dst) = 2
    /\ dst = Range(stmt)

\* C28: an Incremental run removes no destination row: every visit_id the
\* table held when the run started is still there when the run has ended, for
\* visits that left the window, were deleted or lost their diagnosis as well.
C28_IncrementalKeepsRows ==
    (mode.kind = "Incremental" /\ pc \in {"finish", "failed"}) =>
        VisitIds(pre) \subseteq VisitIds(dst)

\* the run ended well and a row of a visit that is not in the statement stays
C28_Witness ==
    /\ SyncEnded("Incremental")
    /\ edits > 0
    /\ \E r \in pre :
            /\ r.visit_id \notin {stmt[k].visit_id : k \in 1..Len(stmt)}
            /\ r.visit_id # StaleRow.visit_id
            /\ r \in dst
    /\ stmt # <<>>

\* a row the table held before the run, for a visit the run's statement did
\* not select, is still in the table
KeptRow(r) ==
    /\ r \in pre
    /\ r \in dst
    /\ r.visit_id \notin {stmt[k].visit_id : k \in 1..Len(stmt)}
    /\ r.visit_id # StaleRow.visit_id

\* the three cases: the visit was deleted, lost its diagnosis, left the window
C28_Deleted ==
    /\ SyncEnded("Incremental")
    /\ \E r \in dst : KeptRow(r) /\ ~\E o \in src.opdscreen : o.hn = r.hn /\ o.vn = r.vn

C28_Ineligible ==
    /\ SyncEnded("Incremental")
    /\ \E r \in dst :
            /\ KeptRow(r)
            /\ \E o \in src.opdscreen : o.hn = r.hn /\ o.vn = r.vn
            /\ ~EligibleVisit(src, r.hn, r.vn)

C28_LeftWindow ==
    /\ SyncEnded("Incremental")
    /\ \E r \in dst :
            /\ KeptRow(r)
            /\ \E o \in src.opdscreen : o.hn = r.hn /\ o.vn = r.vn
            /\ EligibleVisit(src, r.hn, r.vn)

\* the rows the two queries can produce at time t
FullRows(S, t) == UNION {Range(s) : s \in FullSelect(S, t, Limit)}

IncrementalRows(S, t, hours) == UNION {Range(s) : s \in IncrementalSelect(S, t, hours)}

\* the visit of row r is inside the window of an Incremental sync at time t
RowInWindow(r, t, hours) == WhereWindow([o |-> [vstdate |-> r.visit_date]], t, hours)

\* the Incremental run in progress follows a successful Full sync of the
\* same source
AfterFull == mode.kind = "Incremental" /\ prevFull.valid

\* the source leaves no choice to the queries: one result is possible
Determined(S, t) ==
    Cardinality(SelectAll(GroupBy({j \in JoinedRows(S) : WhereEligible(j)}), t)) = 1

\* the ages stored are the ages of the current year
AgesCurrent(D, t) == \A r \in D : r.age = Age(r.visit_date, t)

C29_NewYear ==
    /\ AfterFull
    /\ SyncEnded("Incremental")
    /\ Determined(src, now)
    /\ \E r \in pre : \E x \in dst :
            x.visit_id = r.visit_id /\ x = [r EXCEPT !.age = r.age + 1]

(***************************************************************************)
(* The connection strings in the log                                       *)
(***************************************************************************)
\* configurations: the defaults; two servers with their own accounts; a
\* password with the characters of a URL; an empty password
ConnEnvs ==
    {DefaultEnv,
     [src |-> [user |-> "sync", pass |-> "s3cret", host |-> "db1", port |-> 3306],
      dst |-> [user |-> "ai", pass |-> "Tr4in", host |-> "10.0.0.2", port |-> 3307]],
     [src |-> [user |-> "sync", pass |-> "p:w@x", host |-> "db1", port |-> 3306],
      dst |-> [user |-> "ai", pass |-> "", host |-> "db2", port |-> 65535]]}

ConnInit == InitWith({EmptySource, BusySource}, ConnEnvs)

ConnNext ==
    \/ Startup
    \/ Connect
    \/ CreateTrainingTable
    \/ ClearTable
    \/ CountSource
    \/ FullInsert
    \/ FinalCount
    \/ IncrementalSync
    \/ RunHealthCheck
    \/ PreviewData
    \/ VerifyDataIntegrity
    \/ Complete
    \/ ExitDone
    \/ ExitFailed

ConnSpec == ConnInit /\ [][ConnNext]_vars

\* sub occurs in s
Contains(s, sub) ==
    \E k \in 1..(Len(s) - Len(sub) + 1) : SubSeq(s, k, k + Len(sub) - 1) = sub

\* the connection string of c with "***" in the place of the password
PasswordReplaced(c) ==
    "mysql://" \o c.user \o ":***@" \o c.host \o ":" \o ToString(c.port) \o "/"

\* C30: the lines create_pool logs are the connection strings with the
\* password replaced by "***", and a password that is no part of the rest of
\* the string does not occur in them.
C30_PasswordMasked ==
    connLog # <<>> =>
        /\ connLog = <<PasswordReplaced(env.src), PasswordReplaced(env.dst)>>
        /\ \A k \in 1..2 :
                LET c == IF k = 1 THEN env.src ELSE env.dst
                IN  (c.pass # "" /\ ~Contains(PasswordReplaced(c), c.pass)) =>
                        ~Contains(connLog[k], c.pass)

\* what is logged instead: the user name is replaced, the password is shown
C30_UserMasked ==
    connLog # <<>> =>
        \A k \in 1..2 :
            LET c == IF k = 1 THEN env.src ELSE env.dst
            IN  connLog[k] = "mysql:***:" \o c.pass \o "@" \o c.host \o ":"
                                \o ToString(c.port) \o "/"

C30_Logged ==
    /\ connLog # <<>>
    /\ env.src.pass = "s3cret"
    /\ Contains(connLog[1], "s3cret")
    /\ pc = "done"

====
